---- MODULE Spec2Model ----
(***************************************************************************)
(* Renderer of the visual-debugging example (src/xx-dev/src/Renderer.js,   *)
(* src/03-visual-debugging/src/Renderer.js with ObjectSelector.js):        *)
(* input handling, the per-frame update/draw sequence and the asynchronous *)
(* object picking round trip.                                              *)
(*                                                                         *)
(* JavaScript runs every timer callback and every promise continuation to  *)
(* completion, so each action below is one such task.  Pointer coordinates *)
(* are held in half pixels (selectX = 3 stands for 1.5) so that Math.round *)
(* is a real conversion.  u32 pixel values are held as <<high16, low16>>.  *)
(***************************************************************************)
EXTENDS Integers, Sequences, FiniteSets, TLC

\* ------------------------------------------------------------------ bounds
\* Triangles of one cube mesh (12 in CubeMesh), canvas size in pixels, and the
\* number of #selectObject calls that may be suspended at once.
MaxTriangles == 2
CanvasWidth == 2
CanvasHeight == 2
MaxInFlight == 2

\* ------------------------------------------------------- program constants
\* The scene holds three cubes and two lights.
NumMeshes == 3
NumLights == 2

VARIABLES
    meshList,               \* #gpuMeshData.meshList: <<[vertexCount, firstVertex]>>
    selectObjectAt,         \* pending pick request, Null or [x, y]
    selectionMode,          \* "Face" or "Object"
    firstSelectedVertex,
    numSelectedVertices,
    textureMode,            \* [color, specular, normal] of the standard pass
    picks,                  \* #selectObject calls suspended at an await
    pc,                     \* "idle", or "frameDone" right after renderFrame's body
    log,                    \* GPU calls made by the renderFrame in progress
    last,                   \* the task that ran last and what it was given
    pickHist,               \* the pick resolutions since the last mode switch (at most 2)
    scene,                  \* Scene.getMeshes(): <<[floatsPerVertex, length]>>
    vertexBuffer,           \* #gpuMeshData.vertexBuffer: [size, writes]
    vertexBufferLayout,     \* #gpuMeshData.vertexBufferLayout[0]
    modelMatrices,          \* #gpuMeshData.modelMatrices: <<[bufferOffset, byteLength]>>
    modelMatricesBuffer,    \* [size, bytes]: bytes maps each byte written so far to
                            \* the matrix it belongs to; the other bytes are zero
    main,                   \* where main() of main.js stands
    env,                    \* what the browser offers: [gpu, adapter, device]
    errorMessage,           \* the "error-message" element: [display, text]
    timers,                 \* the setInterval timers started by main()
    renderer,               \* "none", "constructed" or "initialised"
    selectPass,             \* SelectRenderPass: "created", "loadingShaders", "initialised"
    fragment,               \* the arguments of one calcPointLight call
    lightColor,             \* what that call computed and returned
    probe,                  \* the triangle whose index entries are followed
    wireframeIndexBuffer,   \* #wireframeIndexBuffer: [size, length, entries], entries
                            \* being those of the followed triangle
    initLog,                \* what Renderer.init has done so far, in order
    shaded                  \* one invocation of fragment_main: its inputs and its output

\* What Renderer.init builds.  The handlers of the renderer state machine
\* record their buffer writes in log and do not follow the bytes written.
initVars == <<scene, vertexBuffer, vertexBufferLayout, modelMatrices, modelMatricesBuffer>>

\* The state of main() and of what it starts.
startVars == <<main, env, errorMessage, timers, renderer, selectPass>>

\* The fields of the renderer and the history kept with them.
rendererVars ==
    <<meshList, selectObjectAt, selectionMode, firstSelectedVertex, numSelectedVertices,
      textureMode, picks, pc, log, last, pickHist>>

\* One invocation of the fragment shader's calcPointLight.
shaderVars == <<fragment, lightColor>>

\* The index buffer of the wireframe pass.
indexVars == <<probe, wireframeIndexBuffer>>

\* The steps of Renderer.init and one invocation of the fragment shader.
stepVars == <<initLog, shaded>>

vars == <<meshList, selectObjectAt, selectionMode, firstSelectedVertex,
          numSelectedVertices, textureMode, picks, pc, log, last, pickHist,
          scene, vertexBuffer, vertexBufferLayout, modelMatrices, modelMatricesBuffer,
          main, env, errorMessage, timers, renderer, selectPass, fragment, lightColor,
          probe, wireframeIndexBuffer, initLog, shaded>>

\* ------------------------------------------------------------------ values
Null == [x |-> -1, y |-> -1]

SelectionModes == {"Face", "Object"}

TextureRenderModes == {"Normal", "Disabled", "Exclusive"}

MAX_UNIT32 == <<65535, 65535>>

U32Value(pixel) == pixel[1] * 65536 + pixel[2]

NoPixel == <<0, 0>>

NoInput ==
    [colorTextureSwitch |-> FALSE, specularTextureSwitch |-> FALSE,
     normalTextureSwitch |-> FALSE, select |-> FALSE, selectX |-> -2, selectY |-> -2,
     selectionModeSwitch |-> FALSE]

\* Pointer positions tried along an axis of the given size, in half pixels:
\* -1 (outside), -0.5 (rounds to 0), the last pixel, and the last pixel + 0.5
\* (rounds to size, outside).
PointerCoordinates(size) == {-2, -1, 2 * size - 2, 2 * size - 1}

\* InputState records as the input handler produces them: without a click the
\* coordinates keep their default -1 (-2 half pixels).
InputStates ==
    { in \in [colorTextureSwitch : BOOLEAN, specularTextureSwitch : BOOLEAN,
              normalTextureSwitch : BOOLEAN, select : BOOLEAN,
              selectX : PointerCoordinates(CanvasWidth),
              selectY : PointerCoordinates(CanvasHeight),
              selectionModeSwitch : BOOLEAN] :
        ~in.select => (in.selectX = -2 /\ in.selectY = -2) }

\* The input states of Spec: clicks and selection mode switches.
SelectionInputs ==
    { in \in InputStates :
        ~in.colorTextureSwitch /\ ~in.specularTextureSwitch /\ ~in.normalTextureSwitch }

SwitchInput == [NoInput EXCEPT !.selectionModeSwitch = TRUE]

\* --------------------------------------------------------- pure functions
\* Math.round on a coordinate given in half pixels: floor(x + 0.5).
Round(h) == (h + 1) \div 2

\* Mutant: the canvas check has no lower bounds.
InCanvas_NoLowerBound(x, y) == x < CanvasWidth /\ y < CanvasHeight

\* Mutant: the upper bounds of the canvas check are inclusive.
InCanvas_Inclusive(x, y) == x >= 0 /\ x <= CanvasWidth /\ y >= 0 /\ y <= CanvasHeight

InCanvas(x, y) == x >= 0 /\ x < CanvasWidth /\ y >= 0 /\ y < CanvasHeight

\* Mutant: the cycle runs Normal -> Exclusive -> Disabled -> Normal.
NextTextureRenderMode_Backwards(m) ==
    CASE m = "Normal" -> "Exclusive"
      [] m = "Disabled" -> "Normal"
      [] m = "Exclusive" -> "Disabled"

NextTextureRenderMode(m) ==
    CASE m = "Normal" -> "Disabled"
      [] m = "Disabled" -> "Exclusive"
      [] m = "Exclusive" -> "Normal"

\* Mutant: firstVertex is not advanced past a packed mesh.
PackMeshes_NoAdvance(counts, firstVertex) ==
    [i \in DOMAIN counts |-> [vertexCount |-> counts[i], firstVertex |-> firstVertex]]

RECURSIVE PackMeshes(_, _)
\* The loop of init() that records each mesh's range.
PackMeshes(counts, firstVertex) ==
    IF counts = <<>> THEN <<>>
    ELSE <<[vertexCount |-> Head(counts), firstVertex |-> firstVertex]>>
         \o PackMeshes(Tail(counts), firstVertex + Head(counts))

RECURSIVE ScanMeshes_OffByOne(_, _)
\* Mutant: the lower bound of a mesh range is exclusive.
ScanMeshes_OffByOne(meshes, selectedVertex) ==
    IF meshes = <<>> THEN [first |-> 0, num |-> 0]
    ELSE LET m == Head(meshes) IN
         IF selectedVertex > m.firstVertex /\ selectedVertex < m.firstVertex + m.vertexCount
         THEN [first |-> m.firstVertex, num |-> m.vertexCount]
         ELSE ScanMeshes_OffByOne(Tail(meshes), selectedVertex)

RECURSIVE ScanMeshes(_, _)
\* The for loop of #selectVerticesFor with its break: the first mesh containing
\* the vertex, or (0, 0).
ScanMeshes(meshes, selectedVertex) ==
    IF meshes = <<>> THEN [first |-> 0, num |-> 0]
    ELSE LET m == Head(meshes) IN
         IF selectedVertex >= m.firstVertex /\ selectedVertex < m.firstVertex + m.vertexCount
         THEN [first |-> m.firstVertex, num |-> m.vertexCount]
         ELSE ScanMeshes(Tail(meshes), selectedVertex)

\* Mutant: a pick of the current selection selects it again.
SelectVerticesFor_NoToggle(selectedVertex, mode, meshes, first, num) ==
    IF selectedVertex < 0 THEN [first |-> 0, num |-> 0]
    ELSE IF mode = "Face" THEN [first |-> selectedVertex, num |-> 3]
         ELSE ScanMeshes(meshes, selectedVertex)

\* Mutant: Face mode selects the whole mesh, as Object mode does.
SelectVerticesFor_FaceAsObject(selectedVertex, mode, meshes, first, num) ==
    IF selectedVertex < 0 THEN [first |-> 0, num |-> 0]
    ELSE LET new == ScanMeshes(meshes, selectedVertex)
         IN IF new.first = first /\ new.num = num
            THEN [first |-> 0, num |-> 0]
            ELSE new

\* Mutant: Face mode selects the picked vertex alone.
SelectVerticesFor_FaceOneVertex(selectedVertex, mode, meshes, first, num) ==
    IF selectedVertex < 0 THEN [first |-> 0, num |-> 0]
    ELSE LET new == IF mode = "Face" THEN [first |-> selectedVertex, num |-> 1]
                    ELSE ScanMeshes(meshes, selectedVertex)
         IN IF new.first = first /\ new.num = num
            THEN [first |-> 0, num |-> 0]
            ELSE new

\* Mutant: "select nothing" keeps the current selection.
SelectVerticesFor_KeepsOnNothing(selectedVertex, mode, meshes, first, num) ==
    IF selectedVertex < 0 THEN [first |-> first, num |-> num]
    ELSE LET new == IF mode = "Face" THEN [first |-> selectedVertex, num |-> 3]
                    ELSE ScanMeshes(meshes, selectedVertex)
         IN IF new.first = first /\ new.num = num
            THEN [first |-> 0, num |-> 0]
            ELSE new

SelectVerticesFor(selectedVertex, mode, meshes, first, num) ==
    IF selectedVertex < 0 THEN [first |-> 0, num |-> 0]
    ELSE LET new == IF mode = "Face" THEN [first |-> selectedVertex, num |-> 3]
                    ELSE ScanMeshes(meshes, selectedVertex)
         IN IF new.first = first /\ new.num = num
            THEN [first |-> 0, num |-> 0]
            ELSE new

\* Mutant: the clear value is reported as triangle 0.
GetSelectedTriangleId_SentinelZero(pixel) ==
    IF pixel = MAX_UNIT32 THEN 0 ELSE U32Value(pixel)

GetSelectedTriangleId(pixel) ==
    IF pixel = MAX_UNIT32 THEN -1 ELSE U32Value(pixel)

\* ------------------------------------------------------------ the scene
\* Vertex counts of the meshes of Scene: cubes of equal size.
SceneMeshes == [i \in 1..NumMeshes |-> 3 * MaxTriangles]

\* Mesh lists over which the selection functions are verified: triangle lists of
\* any sizes, at least one mesh.
Scenes ==
    UNION { [1..n -> {3 * k : k \in 1..MaxTriangles}] : n \in 1..NumMeshes }

RECURSIVE TotalVertices(_)
TotalVertices(meshes) ==
    IF meshes = <<>> THEN 0 ELSE Head(meshes).vertexCount + TotalVertices(Tail(meshes))

\* What a pixel of the triangle id texture can hold after the picking pass: the
\* clear value, or vertex_index / 3 of a vertex of some mesh.
Pixels(meshes) ==
    {MAX_UNIT32} \cup { <<0, t>> : t \in 0..((TotalVertices(meshes) \div 3) - 1) }

\* Pixels(meshes) and the id of one triangle past the last mesh.
AnyPixels(meshes) == Pixels(meshes) \cup { <<0, TotalVertices(meshes) \div 3>> }

\* ------------------------------------------- packing the vertex buffer
\* Floats of one vertex: CubeMesh of the visual-debugging example, and the
\* CubeMesh of an earlier example, a mesh class with another vertex layout.
CubeVertexFloats == 15
PlainVertexFloats == 9
F32ByteLength == 4

VertexFloats == {CubeVertexFloats, PlainVertexFloats}

\* A mesh as the renderer sees it: its Float32Array of vertex data.
Mesh(floatsPerVertex, vertexCount) ==
    [floatsPerVertex |-> floatsPerVertex, length |-> floatsPerVertex * vertexCount]

GetVertexCount(mesh) == mesh.length \div mesh.floatsPerVertex

ByteLength(mesh) == mesh.length * F32ByteLength

GetVertexLayout(mesh) == [arrayStride |-> mesh.floatsPerVertex * F32ByteLength]

CubeMeshes(counts) == [i \in DOMAIN counts |-> Mesh(CubeVertexFloats, counts[i])]

\* Mesh lists given to Renderer.init: one to NumMeshes meshes, each a
\* triangle list in one of the vertex layouts.
MeshLists ==
    UNION { [1..n -> { Mesh(f, 3 * k) : f \in VertexFloats, k \in 1..MaxTriangles }] :
            n \in 1..NumMeshes }

RECURSIVE VbByteSize(_)
VbByteSize(meshes) ==
    IF meshes = <<>> THEN 0 ELSE ByteLength(Head(meshes)) + VbByteSize(Tail(meshes))

\* The copyToBuffer calls of the packing loop.
RECURSIVE VertexWrites(_, _)
VertexWrites(meshes, vbOffset) ==
    IF meshes = <<>> THEN <<>>
    ELSE <<[offset |-> vbOffset, byteLength |-> ByteLength(Head(meshes))]>>
         \o VertexWrites(Tail(meshes), vbOffset + ByteLength(Head(meshes)))

CreateVertexBuffer(meshes) ==
    [size |-> VbByteSize(meshes), writes |-> VertexWrites(meshes, 0)]

\* Mutant: meshes whose layout differs from the first mesh's are refused.
FirstVertexLayout_Checked(meshes) ==
    IF \A i \in DOMAIN meshes : GetVertexLayout(meshes[i]) = GetVertexLayout(meshes[1])
    THEN GetVertexLayout(meshes[1])
    ELSE [arrayStride |-> 0]

\* vertexBufferLayout is the layout of the first mesh, whatever the others are.
FirstVertexLayout(meshes) == GetVertexLayout(meshes[1])

MeshCounts(meshes) == [i \in DOMAIN meshes |-> GetVertexCount(meshes[i])]

NoBuffer == [size |-> 0, writes |-> <<>>]

NoLayout == [arrayStride |-> 0]

\* ------------------------------------------- the per-object transforms
Mat4ByteLength == 64
Mat3ByteLength == 48
UniformAlignment == 256

\* Mutant: rounds down to a multiple of the alignment.
Align_Floor(number, alignment) == (number \div alignment) * alignment

\* utils.align: Math.ceil(number / alignment) * alignment.
Align(number, alignment) == ((number + alignment - 1) \div alignment) * alignment

ModelMatrixStructByteLength == Mat4ByteLength + Mat3ByteLength

BindGroupByteLength == Align(ModelMatrixStructByteLength, UniformAlignment)

\* The slot objects pushed by the loop over the meshes, n meshes left.
RECURSIVE CreateModelMatrices(_, _)
CreateModelMatrices(n, bufferOffset) ==
    IF n = 0 THEN <<>>
    ELSE <<[bufferOffset |-> bufferOffset, byteLength |-> ModelMatrixStructByteLength]>>
         \o CreateModelMatrices(n - 1, bufferOffset + BindGroupByteLength)

CreateModelMatricesBuffer(n) == [size |-> BindGroupByteLength * n, bytes |-> <<>>]

\* queue.writeBuffer of byteLength bytes of data at offset.
CopyToBuffer(buffer, data, byteLength, offset) ==
    LET written == offset..(offset + byteLength - 1)
    IN [buffer EXCEPT !.bytes =
            [b \in (DOMAIN buffer.bytes) \cup written |->
                IF b \in written THEN data ELSE buffer.bytes[b]]]

\* The buffer binding made by createBindGroup of a slot.
CreateBindGroup(slot) == [offset |-> slot.bufferOffset, size |-> slot.byteLength]

NoModelMatricesBuffer == [size |-> 0, bytes |-> <<>>]

\* The state of the init variables after Renderer.init packed meshes.
Packed(meshes) ==
    /\ scene = meshes
    /\ vertexBuffer = CreateVertexBuffer(meshes)
    /\ vertexBufferLayout = FirstVertexLayout(meshes)
    /\ modelMatrices = CreateModelMatrices(Len(meshes), 0)
    /\ modelMatricesBuffer = CreateModelMatricesBuffer(Len(meshes))

\* ------------------------------------------------- GPU calls of one frame
Event(op, enc, what, idx, first, num, tangents) ==
    [op |-> op, enc |-> enc, what |-> what, idx |-> idx,
     first |-> first, num |-> num, tangents |-> tangents]

WriteBuffer(what, idx) == Event("writeBuffer", "queue", what, idx, 0, 0, FALSE)

RenderPass(enc, what, first, num, tangents) ==
    Event("renderPass", enc, what, 0, first, num, tangents)

Submit(enc) == Event("submit", enc, "commandBuffer", 0, 0, 0, FALSE)

TextureRenderModeValue(m) ==
    CASE m = "Normal" -> 0
      [] m = "Disabled" -> 1
      [] m = "Exclusive" -> 2

\* Mutant: the light loop stops one record early.
UpdateGpuData_SkipsLastLight(meshes) ==
    <<WriteBuffer("vpMatrix", 0), WriteBuffer("cameraPosition", 0)>>
    \o [i \in 1..(NumLights - 1) |-> WriteBuffer("light", i - 1)]
    \o [k \in 1..(2 * Len(meshes)) |->
            IF k % 2 = 1 THEN WriteBuffer("modelMatrix", (k - 1) \div 2)
            ELSE WriteBuffer("normalMatrix", (k - 1) \div 2)]

UpdateGpuData(meshes) ==
    <<WriteBuffer("vpMatrix", 0), WriteBuffer("cameraPosition", 0)>>
    \o [i \in 1..NumLights |-> WriteBuffer("light", i - 1)]
    \o [k \in 1..(2 * Len(meshes)) |->
            IF k % 2 = 1 THEN WriteBuffer("modelMatrix", (k - 1) \div 2)
            ELSE WriteBuffer("normalMatrix", (k - 1) \div 2)]

\* Mutant: the picking pass is recorded into the frame's command buffer.
SelectObject_InFrame ==
    <<RenderPass("frame", "Select", 0, 0, FALSE),
      Event("copyTextureToBuffer", "frame", "triangleIdBuffer", 0, 0, 0, FALSE)>>

\* Mutant: the picking pass of a request is recorded and submitted twice.
SelectObject_Twice ==
    <<RenderPass("select", "Select", 0, 0, FALSE),
      Event("copyTextureToBuffer", "select", "triangleIdBuffer", 0, 0, 0, FALSE),
      Submit("select"),
      RenderPass("select", "Select", 0, 0, FALSE),
      Event("copyTextureToBuffer", "select", "triangleIdBuffer", 0, 0, 0, FALSE),
      Submit("select")>>

\* The synchronous part of #selectObject: everything before its first await.
SelectObject ==
    <<RenderPass("select", "Select", 0, 0, FALSE),
      Event("copyTextureToBuffer", "select", "triangleIdBuffer", 0, 0, 0, FALSE),
      Submit("select")>>

StandardRenderFrame(tex) ==
    <<WriteBuffer("colorTextureMode", TextureRenderModeValue(tex.color)),
      WriteBuffer("specularTextureMode", TextureRenderModeValue(tex.specular)),
      WriteBuffer("normalTextureMode", TextureRenderModeValue(tex.normal)),
      RenderPass("frame", "Standard", 0, 0, FALSE)>>

WireframeRenderFrame(first, num) ==
    <<RenderPass("frame", "Wireframe", first, num, FALSE)>>

NormalsRenderFrame(first, num, drawTangents) ==
    <<RenderPass("frame", "Normals", first, num, drawTangents)>>

\* Mutant: the normals pass is given the triangle after the selection.
RecordFrame_NormalsShifted(tex, first, num, mode) ==
    StandardRenderFrame(tex)
    \o WireframeRenderFrame(first, num)
    \o NormalsRenderFrame(first + 3, num, mode = "Face")
    \o <<Submit("frame")>>

\* Mutant: the normals pass is recorded before the wireframe pass.
RecordFrame_NormalsFirst(tex, first, num, mode) ==
    StandardRenderFrame(tex)
    \o NormalsRenderFrame(first, num, mode = "Face")
    \o WireframeRenderFrame(first, num)
    \o <<Submit("frame")>>

\* renderFrame from createCommandEncoder to queue.submit.
RecordFrame(tex, first, num, mode) ==
    StandardRenderFrame(tex)
    \o WireframeRenderFrame(first, num)
    \o NormalsRenderFrame(first, num, mode = "Face")
    \o <<Submit("frame")>>

\* ------------------------------------------------------------------ state
\* Where a click of an input state lies, from the real-valued coordinates: a
\* coordinate rounds below 0 when it is under -0.5 and to size or more from
\* size - 0.5 on.
Click(in) ==
    IF ~in.select THEN "none"
    ELSE IF \/ in.selectX < -1 \/ in.selectX >= 2 * CanvasWidth - 1
            \/ in.selectY < -1 \/ in.selectY >= 2 * CanvasHeight - 1
         THEN "outside"
         ELSE "inside"

Last(op, click, switch, pixel, triangleId) ==
    [op |-> op, click |-> click, selectionModeSwitch |-> switch,
     pixel |-> pixel, triangleId |-> triangleId]

Remove(s, i) == [k \in 1..(Len(s) - 1) |-> IF k < i THEN s[k] ELSE s[k + 1]]

\* The last two entries of the history extended by e.
Remember(h, e) == IF Len(h) < 2 THEN Append(h, e) ELSE <<h[2], e>>

Max(a, b) == IF a >= b THEN a ELSE b

Min(a, b) == IF a <= b THEN a ELSE b

\* ------------------------------------------------------ calcPointLight
\* Distances, strengths and colours are whole numbers of some unit, one colour
\* channel is followed, and the dot products are given instead of the
\* vectors; a quotient is held as [num, den].
MaxRange == 3

NoFragment ==
    [range |-> 1, distance |-> 0, color |-> 0, ambientStrength |-> 0,
     diffuseStrength |-> 0, specularStrength |-> 0, dotLightNormal |-> 0,
     dotNormalHalfway |-> 0, matSpecularStrength |-> 0, matSpecularShininess |-> 1]

Black == [ambient |-> 0, diffuse |-> 0, specular |-> 0, result |-> [num |-> 0, den |-> 1]]

\* The lights and fragments calcPointLight is called with.
Fragments ==
    [range : 1..MaxRange, distance : 0..(MaxRange + 1), color : {1, 2},
     ambientStrength : {1}, diffuseStrength : {1}, specularStrength : {0, 2},
     dotLightNormal : {-1, 0, 1}, dotNormalHalfway : {-1, 0, 1},
     matSpecularStrength : {1}, matSpecularShininess : {1, 2}]

RECURSIVE Pow(_, _)
Pow(base, exponent) == IF exponent = 0 THEN 1 ELSE base * Pow(base, exponent - 1)

\* Mutant: quadratic falloff.
LightStrength_Quadratic(range, lightDistance) ==
    [num |-> (range - lightDistance) * (range - lightDistance), den |-> range * range]

\* (light.range - lightDistance) / light.range.
LightStrength(range, lightDistance) == [num |-> range - lightDistance, den |-> range]

\* Mutant: the specular colour is computed whatever the diffuse factor is,
\* as in the fragment shader of the earlier examples.
SpecularColor_NoSkip(f, diffuseFactor) ==
    f.color * f.matSpecularStrength * f.specularStrength
        * Pow(Max(f.dotNormalHalfway, 0), f.matSpecularShininess)

\* specularColor: black unless the diffuse factor is positive.
SpecularColor(f, diffuseFactor) ==
    IF diffuseFactor > 0
    THEN f.color * f.matSpecularStrength * f.specularStrength
             * Pow(Max(f.dotNormalHalfway, 0), f.matSpecularShininess)
    ELSE 0

CalcPointLight(f) ==
    IF f.range < f.distance THEN Black
    ELSE LET lightStrength == LightStrength(f.range, f.distance)
             ambientColor == f.color * f.ambientStrength
             diffuseFactor == Max(f.dotLightNormal, 0)
             diffuseColor == f.color * f.diffuseStrength * diffuseFactor
             specularColor == SpecularColor(f, diffuseFactor)
         IN [ambient |-> ambientColor, diffuse |-> diffuseColor, specular |-> specularColor,
             result |-> [num |-> (ambientColor + diffuseColor + specularColor)
                                     * lightStrength.num,
                         den |-> lightStrength.den]]

NoShader ==
    /\ fragment = NoFragment
    /\ lightColor = [called |-> FALSE, value |-> Black]

NoIndexBuffer == [size |-> 0, length |-> 0, entries |-> <<>>]

\* The passes that are followed in a specification of their own are left as
\* constructed.
\* fragment_main has not run.
NoOutput == [given |-> FALSE]

PassesIdle ==
    /\ NoShader
    /\ probe = 0
    /\ wireframeIndexBuffer = NoIndexBuffer
    /\ initLog = <<>>
    /\ shaded = NoOutput

\* ----------------------------------------------------------- startup
BrowserOk == [gpu |-> TRUE, adapter |-> "adapter", device |-> "device"]

\* What navigator.gpu, requestAdapter and requestDevice can give.
Browsers ==
    [gpu : BOOLEAN, adapter : {"adapter", "null", "rejects"}, device : {"device", "rejects"}]

NoErrorMessage == [display |-> "none", text |-> ""]

\* displayErrorMessage(message).
DisplayErrorMessage(message) == [display |-> "block", text |-> message]

\* Mutant: the handler of main() shows nothing.
MainCatch_Silent(shown, e) == shown

\* The catch block of main(): show the error; it is thrown on afterwards.
MainCatch(shown, e) == DisplayErrorMessage(e)

\* main() has started both timers over an initialised renderer.
Started ==
    /\ main = "running"
    /\ env = BrowserOk
    /\ errorMessage = NoErrorMessage
    /\ timers = {"frame", "input"}
    /\ renderer = "initialised"
    /\ selectPass = "initialised"

Init ==
    /\ Started
    /\ PassesIdle
    /\ Packed(CubeMeshes(SceneMeshes))
    /\ meshList = PackMeshes(MeshCounts(scene), 0)
    /\ selectObjectAt = Null
    /\ selectionMode = "Object"
    /\ firstSelectedVertex = 0
    /\ numSelectedVertices = 0
    /\ textureMode = [color |-> "Normal", specular |-> "Normal", normal |-> "Normal"]
    /\ picks = <<>>
    /\ pc = "idle"
    /\ log = <<>>
    /\ last = Last("init", "none", FALSE, NoPixel, 0)
    /\ pickHist = <<>>

\* ---------------------------------------------------------------- actions
UpdateWithInputState(in) ==
    /\ pc = "idle"
    /\ textureMode' =
         [color |-> IF in.colorTextureSwitch
                    THEN NextTextureRenderMode(textureMode.color) ELSE textureMode.color,
          specular |-> IF in.specularTextureSwitch
                       THEN NextTextureRenderMode(textureMode.specular)
                       ELSE textureMode.specular,
          normal |-> IF in.normalTextureSwitch
                     THEN NextTextureRenderMode(textureMode.normal) ELSE textureMode.normal]
    /\ selectObjectAt' =
         IF in.select /\ InCanvas(Round(in.selectX), Round(in.selectY))
         THEN [x |-> Round(in.selectX), y |-> Round(in.selectY)]
         ELSE selectObjectAt
    /\ IF in.selectionModeSwitch
       THEN LET newMode == IF selectionMode = "Face" THEN "Object" ELSE "Face"
                sel == SelectVerticesFor(-1, newMode, meshList,
                                         firstSelectedVertex, numSelectedVertices)
            IN /\ selectionMode' = newMode
               /\ firstSelectedVertex' = sel.first
               /\ numSelectedVertices' = sel.num
               /\ pickHist' = <<>>
       ELSE UNCHANGED <<selectionMode, firstSelectedVertex, numSelectedVertices, pickHist>>
    /\ last' = Last("updateWithInputState", Click(in), in.selectionModeSwitch, NoPixel, 0)
    /\ UNCHANGED <<meshList, picks, pc, log>>
    /\ UNCHANGED initVars
    /\ UNCHANGED startVars
    /\ UNCHANGED shaderVars
    /\ UNCHANGED indexVars
    /\ UNCHANGED stepVars

\* renderFrame: its body has no await, so it runs to its end in one task; the
\* #selectObject call it makes runs up to its first await.
RenderFrame ==
    /\ pc = "idle"
    /\ selectObjectAt # Null => Len(picks) < MaxInFlight
    /\ log' = UpdateGpuData(meshList)
              \o (IF selectObjectAt # Null THEN SelectObject ELSE <<>>)
              \o RecordFrame(textureMode, firstSelectedVertex, numSelectedVertices,
                             selectionMode)
    /\ picks' = IF selectObjectAt # Null
                THEN Append(picks, [x |-> selectObjectAt.x, y |-> selectObjectAt.y,
                                    at |-> "onSubmittedWorkDone", fresh |-> TRUE])
                ELSE picks
    /\ selectObjectAt' = Null
    /\ pc' = "frameDone"
    /\ last' = Last("renderFrame", "none", FALSE, NoPixel, 0)
    /\ UNCHANGED <<meshList, selectionMode, firstSelectedVertex, numSelectedVertices,
                   textureMode, pickHist>>
    /\ UNCHANGED initVars
    /\ UNCHANGED startVars
    /\ UNCHANGED shaderVars
    /\ UNCHANGED indexVars
    /\ UNCHANGED stepVars

\* renderFrame returns to the timer: its command encoder is dropped.
FrameReturn ==
    /\ pc = "frameDone"
    /\ pc' = "idle"
    /\ log' = <<>>
    /\ picks' = [i \in 1..Len(picks) |-> [picks[i] EXCEPT !.fresh = FALSE]]
    /\ UNCHANGED <<meshList, selectObjectAt, selectionMode, firstSelectedVertex,
                   numSelectedVertices, textureMode, last, pickHist>>
    /\ UNCHANGED initVars
    /\ UNCHANGED startVars
    /\ UNCHANGED shaderVars
    /\ UNCHANGED indexVars
    /\ UNCHANGED stepVars

MapPending == \E i \in 1..Len(picks) : picks[i].at = "mapAsync"

\* The oldest pick waiting for the queue: submissions complete in order.
NextWorkDone ==
    CHOOSE i \in 1..Len(picks) :
        /\ picks[i].at = "onSubmittedWorkDone"
        /\ \A k \in 1..(i - 1) : picks[k].at # "onSubmittedWorkDone"

\* onSubmittedWorkDone resolves and getSelectedTriangleId calls mapAsync.
WorkDoneMap ==
    /\ pc = "idle"
    /\ \E i \in 1..Len(picks) : picks[i].at = "onSubmittedWorkDone"
    /\ ~MapPending
    /\ picks' = [picks EXCEPT ![NextWorkDone].at = "mapAsync"]
    /\ last' = Last("mapAsync", "none", FALSE, NoPixel, 0)
    /\ UNCHANGED <<meshList, selectObjectAt, selectionMode, firstSelectedVertex,
                   numSelectedVertices, textureMode, pc, log, pickHist>>
    /\ UNCHANGED initVars
    /\ UNCHANGED startVars
    /\ UNCHANGED shaderVars
    /\ UNCHANGED indexVars
    /\ UNCHANGED stepVars

\* mapAsync on a buffer whose map is already pending rejects: the exception
\* leaves getSelectedTriangleId and #selectObject, which catch nothing.
WorkDoneReject ==
    /\ pc = "idle"
    /\ \E i \in 1..Len(picks) : picks[i].at = "onSubmittedWorkDone"
    /\ MapPending
    /\ picks' = Remove(picks, NextWorkDone)
    /\ last' = Last("mapRejected", "none", FALSE, NoPixel, 0)
    /\ UNCHANGED <<meshList, selectObjectAt, selectionMode, firstSelectedVertex,
                   numSelectedVertices, textureMode, pc, log, pickHist>>
    /\ UNCHANGED initVars
    /\ UNCHANGED startVars
    /\ UNCHANGED shaderVars
    /\ UNCHANGED indexVars
    /\ UNCHANGED stepVars

\* #selectObject from the value read by getSelectedTriangleId to its end.
SelectObjectResume(pixel) ==
    LET triangleId == GetSelectedTriangleId(pixel)
        sel == SelectVerticesFor(triangleId * 3, selectionMode, meshList,
                                 firstSelectedVertex, numSelectedVertices)
    IN /\ firstSelectedVertex' = sel.first
       /\ numSelectedVertices' = sel.num
       /\ last' = Last("selectVerticesFor", "none", FALSE, pixel, triangleId)

\* mapAsync resolves: read the pixel, unmap, and #selectVerticesFor.
MapResolved(pixel) ==
    /\ pc = "idle"
    /\ \E i \in 1..Len(picks) :
         /\ picks[i].at = "mapAsync"
         /\ picks' = Remove(picks, i)
    /\ SelectObjectResume(pixel)
    /\ UNCHANGED <<meshList, selectObjectAt, selectionMode, textureMode, pc, log, pickHist>>
    /\ UNCHANGED initVars
    /\ UNCHANGED startVars
    /\ UNCHANGED shaderVars
    /\ UNCHANGED indexVars
    /\ UNCHANGED stepVars

Next ==
    \/ \E in \in SelectionInputs : UpdateWithInputState(in)
    \/ RenderFrame
    \/ FrameReturn
    \/ WorkDoneMap
    \/ WorkDoneReject
    \/ \E pixel \in Pixels(meshList) : MapResolved(pixel)

Spec == Init /\ [][Next]_vars

\* ------------------------------------------- the selection state machine
\* #selectVerticesFor and the mode switch alone, over every mesh list and
\* every value a pick can produce.
InitSelect ==
    /\ Started
    /\ PassesIdle
    /\ \E counts \in Scenes : Packed(CubeMeshes(counts))
    /\ meshList = PackMeshes(MeshCounts(scene), 0)
    /\ selectObjectAt = Null
    /\ selectionMode = "Object"
    /\ firstSelectedVertex = 0
    /\ numSelectedVertices = 0
    /\ textureMode = [color |-> "Normal", specular |-> "Normal", normal |-> "Normal"]
    /\ picks = <<>>
    /\ pc = "idle"
    /\ log = <<>>
    /\ last = Last("init", "none", FALSE, NoPixel, 0)
    /\ pickHist = <<>>

PickResolves(pixel) ==
    /\ SelectObjectResume(pixel)
    /\ pickHist' = Remember(pickHist,
                            [vertex |-> GetSelectedTriangleId(pixel) * 3,
                             first |-> firstSelectedVertex,
                             num |-> numSelectedVertices,
                             newFirst |-> firstSelectedVertex',
                             newNum |-> numSelectedVertices'])
    /\ UNCHANGED <<meshList, selectObjectAt, selectionMode, textureMode, picks, pc, log>>
    /\ UNCHANGED initVars
    /\ UNCHANGED startVars
    /\ UNCHANGED shaderVars
    /\ UNCHANGED indexVars
    /\ UNCHANGED stepVars

NextSelect ==
    \/ \E pixel \in AnyPixels(meshList) : PickResolves(pixel)
    \/ UpdateWithInputState(SwitchInput)

SpecSelect == InitSelect /\ [][NextSelect]_vars

\* ------------------------------------------------- the texture modes
\* updateWithInputState alone, for input states without a click: every
\* combination of the three texture switches and the selection mode switch.
TextureInputs == { in \in InputStates : ~in.select }

InitTexture ==
    /\ Started
    /\ PassesIdle
    /\ Packed(CubeMeshes(SceneMeshes))
    /\ meshList = PackMeshes(MeshCounts(scene), 0)
    /\ selectObjectAt = Null
    /\ selectionMode = "Object"
    /\ firstSelectedVertex = 0
    /\ numSelectedVertices = 0
    /\ textureMode = [color |-> "Normal", specular |-> "Normal", normal |-> "Normal"]
    /\ picks = <<>>
    /\ pc = "idle"
    /\ log = <<>>
    /\ last = Last("init", "none", FALSE, NoPixel, 0)
    /\ pickHist = <<>>

NextTexture == \E in \in TextureInputs : UpdateWithInputState(in)

SpecTexture == InitTexture /\ [][NextTexture]_vars

\* ----------------------------------------------- the wireframe indices
\* Mutant: the last edge of a triangle ends at the first vertex of the next
\* triangle.
IndexContent_OpenLoop(j) == 3 * (j \div 6) + <<0, 1, 1, 2, 2, 3>>[(j % 6) + 1]

\* Entry j of the content array of #createIndexBuffer: the loop pushes
\* i, i+1, i+1, i+2, i+2, i for i = 0, 3, 6, ...
IndexContent(j) == 3 * (j \div 6) + <<0, 1, 1, 2, 2, 0>>[(j % 6) + 1]

\* new Uint16Array(content) keeps the low 16 bits of every element.
Uint16(v) == v % 65536

\* Entry j of the wireframe index buffer.
WireframeIndex(j) == Uint16(IndexContent(j))

\* Bytes of a Uint16Array element.
U16ByteLength == 2

\* Scenes are followed up to this many triangles, and again around the
\* triangle whose vertices have the first indices above 16 bits.
MaxIndexTriangles == 6

FirstWideTriangle == 65536 \div 3

IndexTriangleCounts ==
    (1..MaxIndexTriangles) \cup ((FirstWideTriangle - 1)..(FirstWideTriangle + 3))

ProbedTriangles == (0..(MaxIndexTriangles - 1)) \cup ((FirstWideTriangle - 3)..(FirstWideTriangle + 2))

\* #createIndexBuffer, keeping the six entries of triangle k.
CreateIndexBuffer(meshes, k) ==
    LET totalNumVertices == TotalVertices(meshes)
        length == 6 * ((totalNumVertices + 2) \div 3)
    IN [size |-> totalNumVertices * 2 * U16ByteLength,
        length |-> length,
        entries |-> [j \in 1..6 |-> WireframeIndex(6 * k + j - 1)]]

InitIndex ==
    /\ Started
    /\ NoShader
    /\ \E t \in IndexTriangleCounts :
         \E split \in {0, 1} :
           /\ split < t
           /\ Packed(CubeMeshes(IF split = 0 THEN <<3 * t>> ELSE <<3 * split, 3 * (t - split)>>))
           /\ probe \in {k \in ProbedTriangles : k < t}
    /\ meshList = PackMeshes(MeshCounts(scene), 0)
    /\ wireframeIndexBuffer = NoIndexBuffer
    /\ initLog = <<>>
    /\ shaded = NoOutput
    /\ selectObjectAt = Null
    /\ selectionMode = "Object"
    /\ firstSelectedVertex = 0
    /\ numSelectedVertices = 0
    /\ textureMode = [color |-> "Normal", specular |-> "Normal", normal |-> "Normal"]
    /\ picks = <<>>
    /\ pc = "idle"
    /\ log = <<>>
    /\ last = Last("init", "none", FALSE, NoPixel, 0)
    /\ pickHist = <<>>

\* WireframeRenderPass.init creates the index buffer.
WireframeInit ==
    /\ wireframeIndexBuffer = NoIndexBuffer
    /\ wireframeIndexBuffer' = CreateIndexBuffer(meshList, probe)
    /\ UNCHANGED probe
    /\ UNCHANGED stepVars
    /\ UNCHANGED shaderVars
    /\ UNCHANGED rendererVars
    /\ UNCHANGED initVars
    /\ UNCHANGED startVars

NextIndex == WireframeInit

SpecIndex == InitIndex /\ [][NextIndex]_vars

\* --------------------------------------- the draws of the overlay passes
\* Mutant: the end of the range is not clamped to the end of the mesh.
ClampToMesh_OpenEnd(mesh, firstVertexToDraw, numVerticesToDraw) ==
    [firstVertex |-> Max(firstVertexToDraw, mesh.firstVertex),
     lastVertex |-> firstVertexToDraw + numVerticesToDraw]

\* firstVertex and lastVertex of the draw loops of the wireframe and the
\* normals pass.
ClampToMesh(mesh, firstVertexToDraw, numVerticesToDraw) ==
    [firstVertex |-> Max(firstVertexToDraw, mesh.firstVertex),
     lastVertex |-> Min(firstVertexToDraw + numVerticesToDraw,
                        mesh.firstVertex + mesh.vertexCount)]

\* The drawIndexed calls of WireframeRenderPass.renderFrame, mesh i onwards.
RECURSIVE WireframeDraws(_, _, _, _)
WireframeDraws(meshes, i, firstVertexToDraw, numVerticesToDraw) ==
    IF i > Len(meshes) THEN <<>>
    ELSE LET r == ClampToMesh(meshes[i], firstVertexToDraw, numVerticesToDraw)
             rest == WireframeDraws(meshes, i + 1, firstVertexToDraw, numVerticesToDraw)
         IN IF r.lastVertex <= r.firstVertex THEN rest
            ELSE <<Event("drawIndexed", "frame", "Wireframe", i - 1,
                         r.firstVertex * 2, (r.lastVertex - r.firstVertex) * 2, FALSE)>>
                 \o rest

\* The draw calls of NormalsRenderPass.renderFrame, mesh i onwards: one
\* instance per vertex.
RECURSIVE NormalsDraws(_, _, _, _, _)
NormalsDraws(meshes, i, firstVertexToDraw, numVerticesToDraw, drawTangents) ==
    IF i > Len(meshes) THEN <<>>
    ELSE LET r == ClampToMesh(meshes[i], firstVertexToDraw, numVerticesToDraw)
             rest == NormalsDraws(meshes, i + 1, firstVertexToDraw, numVerticesToDraw,
                                  drawTangents)
         IN IF r.lastVertex <= r.firstVertex THEN rest
            ELSE <<Event("draw", "frame", "Normals", i - 1,
                         r.firstVertex, r.lastVertex - r.firstVertex, drawTangents)>>
                 \o rest

\* Selections handed to the overlay passes: whole triangles, from vertex 0 to
\* one triangle past the last mesh.
TriangleStarts(meshes) == { 3 * t : t \in 0..((TotalVertices(meshes) \div 3) + 1) }

InitDraw ==
    /\ Started
    /\ PassesIdle
    /\ \E counts \in Scenes : Packed(CubeMeshes(counts))
    /\ meshList = PackMeshes(MeshCounts(scene), 0)
    /\ selectObjectAt = Null
    /\ selectionMode \in SelectionModes
    /\ firstSelectedVertex \in TriangleStarts(meshList)
    /\ numSelectedVertices \in TriangleStarts(meshList)
    /\ textureMode = [color |-> "Normal", specular |-> "Normal", normal |-> "Normal"]
    /\ picks = <<>>
    /\ pc = "idle"
    /\ log = <<>>
    /\ last = Last("init", "none", FALSE, NoPixel, 0)
    /\ pickHist = <<>>

\* The wireframe and the normals pass of renderFrame with their draw calls.
DrawOverlays ==
    /\ pc = "idle"
    /\ log' = WireframeRenderFrame(firstSelectedVertex, numSelectedVertices)
              \o WireframeDraws(meshList, 1, firstSelectedVertex, numSelectedVertices)
              \o NormalsRenderFrame(firstSelectedVertex, numSelectedVertices,
                                    selectionMode = "Face")
              \o NormalsDraws(meshList, 1, firstSelectedVertex, numSelectedVertices,
                              selectionMode = "Face")
    /\ pc' = "frameDone"
    /\ last' = Last("drawOverlays", "none", FALSE, NoPixel, 0)
    /\ UNCHANGED <<meshList, selectObjectAt, selectionMode, firstSelectedVertex,
                   numSelectedVertices, textureMode, picks, pickHist>>
    /\ UNCHANGED initVars
    /\ UNCHANGED startVars
    /\ UNCHANGED shaderVars
    /\ UNCHANGED indexVars
    /\ UNCHANGED stepVars

NextDraw == DrawOverlays

SpecDraw == InitDraw /\ [][NextDraw]_vars

\* ------------------------------------------------- the transform slots
\* setModelMatrix and setNormalMatrix of the slot objects, called in any
\* order with any matrices, for scenes of one to NumMeshes cubes.
MatrixValues == {"a", "b"}

InitSlots ==
    /\ Started
    /\ PassesIdle
    /\ \E n \in 1..NumMeshes : Packed(CubeMeshes([i \in 1..n |-> 3 * MaxTriangles]))
    /\ meshList = PackMeshes(MeshCounts(scene), 0)
    /\ selectObjectAt = Null
    /\ selectionMode = "Object"
    /\ firstSelectedVertex = 0
    /\ numSelectedVertices = 0
    /\ textureMode = [color |-> "Normal", specular |-> "Normal", normal |-> "Normal"]
    /\ picks = <<>>
    /\ pc = "idle"
    /\ log = <<>>
    /\ last = Last("init", "none", FALSE, NoPixel, 0)
    /\ pickHist = <<>>

SetModelMatrix(i, m) ==
    /\ modelMatricesBuffer' =
         CopyToBuffer(modelMatricesBuffer, <<"model", m>>, Mat4ByteLength,
                      modelMatrices[i].bufferOffset)
    /\ log' = <<WriteBuffer("modelMatrix", i - 1)>>
    /\ UNCHANGED <<meshList, selectObjectAt, selectionMode, firstSelectedVertex,
                   numSelectedVertices, textureMode, picks, pc, last, pickHist,
                   scene, vertexBuffer, vertexBufferLayout, modelMatrices>>
    /\ UNCHANGED startVars
    /\ UNCHANGED shaderVars
    /\ UNCHANGED indexVars
    /\ UNCHANGED stepVars

SetNormalMatrix(i, m) ==
    /\ modelMatricesBuffer' =
         CopyToBuffer(modelMatricesBuffer, <<"normal", m>>, Mat3ByteLength,
                      modelMatrices[i].bufferOffset + Mat4ByteLength)
    /\ log' = <<WriteBuffer("normalMatrix", i - 1)>>
    /\ UNCHANGED <<meshList, selectObjectAt, selectionMode, firstSelectedVertex,
                   numSelectedVertices, textureMode, picks, pc, last, pickHist,
                   scene, vertexBuffer, vertexBufferLayout, modelMatrices>>
    /\ UNCHANGED startVars
    /\ UNCHANGED shaderVars
    /\ UNCHANGED indexVars
    /\ UNCHANGED stepVars

NextSlots ==
    \/ \E i \in 1..Len(modelMatrices), m \in MatrixValues : SetModelMatrix(i, m)
    \/ \E i \in 1..Len(modelMatrices), m \in MatrixValues : SetNormalMatrix(i, m)

SpecSlots == InitSlots /\ [][NextSlots]_vars

\* ------------------------------------------------ packing the mesh list
\* Renderer.init's packing loop over every mesh list, the renderer being
\* constructed and not yet initialised.
InitPack ==
    /\ PassesIdle
    /\ main = "rendererInit"
    /\ env = BrowserOk
    /\ errorMessage = NoErrorMessage
    /\ timers = {}
    /\ renderer = "constructed"
    /\ selectPass = "created"
    /\ scene \in MeshLists
    /\ vertexBuffer = NoBuffer
    /\ vertexBufferLayout = NoLayout
    /\ modelMatrices = <<>>
    /\ modelMatricesBuffer = NoModelMatricesBuffer
    /\ meshList = <<>>
    /\ selectObjectAt = Null
    /\ selectionMode = "Object"
    /\ firstSelectedVertex = 0
    /\ numSelectedVertices = 0
    /\ textureMode = [color |-> "Normal", specular |-> "Normal", normal |-> "Normal"]
    /\ picks = <<>>
    /\ pc = "idle"
    /\ log = <<>>
    /\ last = Last("constructor", "none", FALSE, NoPixel, 0)
    /\ pickHist = <<>>

\* The buffers and ranges Renderer.init builds from the scene's meshes.
PackScene ==
    /\ vertexBuffer' = CreateVertexBuffer(scene)
    /\ vertexBufferLayout' = FirstVertexLayout(scene)
    /\ modelMatrices' = CreateModelMatrices(Len(scene), 0)
    /\ modelMatricesBuffer' = CreateModelMatricesBuffer(Len(scene))
    /\ meshList' = PackMeshes(MeshCounts(scene), 0)
    /\ last' = Last("init", "none", FALSE, NoPixel, 0)

RendererInit ==
    /\ last.op = "constructor"
    /\ PackScene
    /\ UNCHANGED <<scene, selectObjectAt, selectionMode, firstSelectedVertex,
                   numSelectedVertices, textureMode, picks, pc, log, pickHist>>
    /\ UNCHANGED startVars
    /\ UNCHANGED shaderVars
    /\ UNCHANGED indexVars
    /\ UNCHANGED stepVars

NextPack == RendererInit

SpecPack == InitPack /\ [][NextPack]_vars

\* --------------------------------------------- the point light function
InitLight ==
    /\ Started
    /\ fragment \in Fragments
    /\ lightColor = [called |-> FALSE, value |-> Black]
    /\ probe = 0
    /\ wireframeIndexBuffer = NoIndexBuffer
    /\ initLog = <<>>
    /\ shaded = NoOutput
    /\ Packed(CubeMeshes(SceneMeshes))
    /\ meshList = PackMeshes(MeshCounts(scene), 0)
    /\ selectObjectAt = Null
    /\ selectionMode = "Object"
    /\ firstSelectedVertex = 0
    /\ numSelectedVertices = 0
    /\ textureMode = [color |-> "Normal", specular |-> "Normal", normal |-> "Normal"]
    /\ picks = <<>>
    /\ pc = "idle"
    /\ log = <<>>
    /\ last = Last("init", "none", FALSE, NoPixel, 0)
    /\ pickHist = <<>>

\* The fragment shader calls calcPointLight for the light and the fragment.
ShadeFragment ==
    /\ ~lightColor.called
    /\ lightColor' = [called |-> TRUE, value |-> CalcPointLight(fragment)]
    /\ UNCHANGED fragment
    /\ UNCHANGED indexVars
    /\ UNCHANGED stepVars
    /\ UNCHANGED rendererVars
    /\ UNCHANGED initVars
    /\ UNCHANGED startVars

NextLight == ShadeFragment

SpecLight == InitLight /\ [][NextLight]_vars

\* ------------------------------------------------------ main() of main.js
\* Startup of the visual-debugging example, whose renderer owns an
\* ObjectSelector, from the call of main() to the first frames.  The pick
\* round trips after a frame are followed in Spec.
InitStartup ==
    /\ PassesIdle
    /\ main = "initGpuDevice"
    /\ env \in Browsers
    /\ errorMessage = NoErrorMessage
    /\ timers = {}
    /\ renderer = "none"
    /\ selectPass = "created"
    /\ scene = CubeMeshes(SceneMeshes)
    /\ vertexBuffer = NoBuffer
    /\ vertexBufferLayout = NoLayout
    /\ modelMatrices = <<>>
    /\ modelMatricesBuffer = NoModelMatricesBuffer
    /\ meshList = <<>>
    /\ selectObjectAt = Null
    /\ selectionMode = "Object"
    /\ firstSelectedVertex = 0
    /\ numSelectedVertices = 0
    /\ textureMode = [color |-> "Normal", specular |-> "Normal", normal |-> "Normal"]
    /\ picks = <<>>
    /\ pc = "idle"
    /\ log = <<>>
    /\ last = Last("main", "none", FALSE, NoPixel, 0)
    /\ pickHist = <<>>

\* main() fails: the exception reaches its catch block.
MainFails(shown, e) ==
    /\ main' = "failed"
    /\ errorMessage' = MainCatch(shown, e)
    /\ UNCHANGED <<env, timers, renderer, selectPass>>
    /\ UNCHANGED shaderVars
    /\ UNCHANGED indexVars
    /\ UNCHANGED stepVars
    /\ UNCHANGED initVars
    /\ UNCHANGED rendererVars

\* initGpuDevice up to its first await.
InitGpuDevice ==
    /\ main = "initGpuDevice"
    /\ IF ~env.gpu
       THEN MainFails(DisplayErrorMessage(""), "WebGPU not supported.")
       ELSE /\ main' = "requestAdapter"
            /\ UNCHANGED <<env, errorMessage, timers, renderer, selectPass>>
            /\ UNCHANGED shaderVars
            /\ UNCHANGED indexVars
            /\ UNCHANGED stepVars
            /\ UNCHANGED initVars
            /\ UNCHANGED rendererVars

\* navigator.gpu.requestAdapter() settles.
RequestAdapter ==
    /\ main = "requestAdapter"
    /\ CASE env.adapter = "rejects" -> MainFails(errorMessage, "requestAdapter rejected")
         [] env.adapter = "null" -> MainFails(errorMessage, "Couldn't request WebGPU adapter.")
         [] env.adapter = "adapter" ->
              /\ main' = "requestDevice"
              /\ UNCHANGED <<env, errorMessage, timers, renderer, selectPass>>
              /\ UNCHANGED shaderVars
              /\ UNCHANGED indexVars
              /\ UNCHANGED stepVars
              /\ UNCHANGED initVars
              /\ UNCHANGED rendererVars

\* adapter.requestDevice() settles; with a device main() configures the
\* canvas, constructs scene, renderer and input handler and calls
\* renderer.init(), which runs to its first await.
RequestDevice ==
    /\ main = "requestDevice"
    /\ IF env.device = "rejects"
       THEN MainFails(errorMessage, "requestDevice rejected")
       ELSE /\ main' = "rendererInit"
            /\ renderer' = "constructed"
            /\ UNCHANGED <<env, errorMessage, timers, selectPass>>
            /\ UNCHANGED shaderVars
            /\ UNCHANGED indexVars
            /\ UNCHANGED stepVars
            /\ UNCHANGED initVars
            /\ UNCHANGED rendererVars

\* Renderer.init runs to its end: it awaits the standard, the normals and the
\* wireframe pass, then ObjectSelector.init, which calls
\* SelectRenderPass.init without await and so resolves while that pass still
\* waits for its shader file; main() then starts the two timers.
RendererInitResolves ==
    /\ main = "rendererInit"
    /\ PackScene
    /\ selectPass' = "loadingShaders"
    /\ renderer' = "initialised"
    /\ timers' = {"frame", "input"}
    /\ main' = "running"
    /\ UNCHANGED <<env, errorMessage, scene, selectObjectAt, selectionMode,
                   firstSelectedVertex, numSelectedVertices, textureMode, picks, pc, log,
                   pickHist>>
    /\ UNCHANGED shaderVars
    /\ UNCHANGED indexVars
    /\ UNCHANGED stepVars

\* The shader file of the select pass arrives and SelectRenderPass.init
\* creates the pass's texture, buffer, pipeline and bind groups.
SelectPassInitResumes ==
    /\ selectPass = "loadingShaders"
    /\ pc = "idle"
    /\ selectPass' = "initialised"
    /\ UNCHANGED <<main, env, errorMessage, timers, renderer>>
    /\ UNCHANGED shaderVars
    /\ UNCHANGED indexVars
    /\ UNCHANGED stepVars
    /\ UNCHANGED initVars
    /\ UNCHANGED rendererVars

\* A frame with a pending pick while the select pass is not initialised:
\* SelectRenderPass.renderFrame reads the undefined #triangleIdTexture, so
\* #selectObject throws before it submits anything; the call is not awaited
\* and the frame goes on.
RenderFrameSelectThrows ==
    /\ "frame" \in timers
    /\ pc = "idle"
    /\ selectObjectAt # Null
    /\ selectPass # "initialised"
    /\ log' = UpdateGpuData(meshList)
              \o RecordFrame(textureMode, firstSelectedVertex, numSelectedVertices,
                             selectionMode)
    /\ selectObjectAt' = Null
    /\ pc' = "frameDone"
    /\ last' = Last("selectObjectThrows", "none", FALSE, NoPixel, 0)
    /\ UNCHANGED <<meshList, selectionMode, firstSelectedVertex, numSelectedVertices,
                   textureMode, picks, pickHist>>
    /\ UNCHANGED initVars
    /\ UNCHANGED startVars
    /\ UNCHANGED shaderVars
    /\ UNCHANGED indexVars
    /\ UNCHANGED stepVars

NextStartup ==
    \/ InitGpuDevice
    \/ RequestAdapter
    \/ RequestDevice
    \/ RendererInitResolves
    \/ SelectPassInitResumes
    \/ "input" \in timers /\ \E in \in SelectionInputs : UpdateWithInputState(in)
    \/ "frame" \in timers /\ (selectObjectAt = Null \/ selectPass = "initialised")
          /\ RenderFrame
    \/ RenderFrameSelectThrows
    \/ FrameReturn

SpecStartup == InitStartup /\ [][NextStartup]_vars

\* ------------------------------------------------------------------ claims
InMesh(m, v) == v >= m.firstVertex /\ v < m.firstVertex + m.vertexCount

MeshesContaining(v) == { i \in 1..Len(meshList) : InMesh(meshList[i], v) }

MeshRange(i) == <<meshList[i].firstVertex, meshList[i].vertexCount>>

\* What the pick recorded in entry e of pickHist aimed at: the picked triangle
\* in Face mode, the mesh holding the picked vertex in Object mode.
HistTarget(e) ==
    IF selectionMode = "Face" THEN <<e.vertex, 3>>
    ELSE MeshRange(CHOOSE i \in MeshesContaining(e.vertex) : TRUE)

HistBefore(e) == <<e.first, e.num>>

HistAfter(e) == <<e.newFirst, e.newNum>>

\* The last two picks, with no mode switch between them, resolved to the same
\* triangle (Face mode) or to triangles of the same mesh (Object mode).
SamePickTwice ==
    /\ Len(pickHist) = 2
    /\ MeshesContaining(pickHist[1].vertex) # {}
    /\ MeshesContaining(pickHist[2].vertex) # {}
    /\ HistTarget(pickHist[1]) = HistTarget(pickHist[2])

\* C1 as stated: after two consecutive picks of the same triangle (Face mode)
\* or of the same mesh (Object mode) with no mode switch between them, the
\* selection is empty, whatever the state before the first pick was.
C1_SecondPickClears ==
    SamePickTwice => HistAfter(pickHist[2]) = <<0, 0>>

\* C1 amended: two consecutive picks of the same target with no mode switch
\* between them leave the selection empty after the second pick when the
\* target was not the selection before the first pick; when it was, the first
\* pick clears the selection and the second selects the target again.
C1_SecondPickToggles ==
    SamePickTwice =>
        HistAfter(pickHist[2]) =
            IF HistBefore(pickHist[1]) = HistTarget(pickHist[1])
            THEN HistTarget(pickHist[1])
            ELSE <<0, 0>>

C1_Witness ==
    /\ SamePickTwice
    /\ HistTarget(pickHist[1])[1] > 0
    /\ HistBefore(pickHist[1]) # HistTarget(pickHist[1])
    /\ HistAfter(pickHist[1]) = HistTarget(pickHist[1])
    /\ HistAfter(pickHist[2]) = <<0, 0>>
    /\ firstSelectedVertex = 0
    /\ numSelectedVertices = 0

\* C2: an updateWithInputState whose input state has selectionModeSwitch set
\* flips the selection mode and leaves the selection empty, whatever the
\* selection and the mode were before.
C2_ModeSwitchClears ==
    [][(last'.op = "updateWithInputState" /\ last'.selectionModeSwitch)
        => /\ selectionMode' \in SelectionModes
           /\ selectionMode' # selectionMode
           /\ firstSelectedVertex' = 0
           /\ numSelectedVertices' = 0]_vars

C2_Witness ==
    /\ last.op = "updateWithInputState"
    /\ last.selectionModeSwitch
    /\ last.click = "inside"
    /\ selectionMode = "Object"
    /\ selectObjectAt # Null
    /\ firstSelectedVertex = 0
    /\ numSelectedVertices = 0

\* C3: in Object mode a pick of a vertex inside a mesh whose range is not the
\* current selection selects exactly that mesh's range, and a pick of a vertex
\* inside no mesh leaves the selection empty.
C3_ObjectPickSelectsMesh ==
    (Len(pickHist) > 0 /\ selectionMode = "Object") =>
        LET e == pickHist[Len(pickHist)]
            hit == MeshesContaining(e.vertex)
        IN IF hit = {} THEN HistAfter(e) = <<0, 0>>
           ELSE \A i \in hit :
                    MeshRange(i) # HistBefore(e) => HistAfter(e) = MeshRange(i)

C3_Witness ==
    /\ Len(pickHist) > 0
    /\ selectionMode = "Object"
    /\ LET e == pickHist[Len(pickHist)]
       IN /\ 2 \in MeshesContaining(e.vertex)
          /\ e.vertex = meshList[2].firstVertex
          /\ HistBefore(e) = MeshRange(1)
          /\ HistAfter(e) = MeshRange(2)
          /\ firstSelectedVertex = meshList[2].firstVertex
          /\ numSelectedVertices = meshList[2].vertexCount

\* C4: in Face mode a pick of triangle t >= 0 whose range (3t, 3) is not the
\* current selection selects exactly (3t, 3), whatever the mesh ranges are.
C4_FacePickSelectsTriangle ==
    (Len(pickHist) > 0 /\ selectionMode = "Face") =>
        LET e == pickHist[Len(pickHist)]
        IN (e.vertex >= 0 /\ HistBefore(e) # <<e.vertex, 3>>)
               => HistAfter(e) = <<e.vertex, 3>>

C4_Witness ==
    /\ Len(pickHist) > 0
    /\ selectionMode = "Face"
    /\ LET e == pickHist[Len(pickHist)]
       IN /\ e.vertex > 0
          /\ \E i \in MeshesContaining(e.vertex) : meshList[i].vertexCount > 3
          /\ HistBefore(e) # <<0, 0>>
          /\ firstSelectedVertex = e.vertex
          /\ numSelectedVertices = 3

\* C5: when the pixel read back holds the clear value 2^32 - 1,
\* getSelectedTriangleId returns -1 and the pick leaves the selection empty, in
\* either selection mode.
C5_SentinelSelectsNothing ==
    (last.op = "selectVerticesFor" /\ last.pixel = MAX_UNIT32) =>
        /\ last.triangleId = -1
        /\ firstSelectedVertex = 0
        /\ numSelectedVertices = 0

C5_Witness ==
    /\ last.op = "selectVerticesFor"
    /\ last.pixel = MAX_UNIT32
    /\ last.triangleId = -1
    /\ selectionMode = "Face"
    /\ numSelectedVertices = 0

\* C6 as stated: an input state whose click rounds to a position outside the
\* canvas leaves the pending pick request, the selection and the selection mode
\* unchanged.
C6_OutsideClickChangesNothing ==
    [][(last'.op = "updateWithInputState" /\ last'.click = "outside")
        => /\ selectObjectAt' = selectObjectAt
           /\ selectionMode' = selectionMode
           /\ firstSelectedVertex' = firstSelectedVertex
           /\ numSelectedVertices' = numSelectedVertices]_vars

\* C6 amended: an input state whose click rounds to a position outside the
\* canvas leaves the pending pick request unchanged, and leaves the selection
\* and the selection mode unchanged unless the same input state also has
\* selectionModeSwitch set.
C6_OutsideClickKeepsRequest ==
    [][(last'.op = "updateWithInputState" /\ last'.click = "outside")
        => /\ selectObjectAt' = selectObjectAt
           /\ ~last'.selectionModeSwitch
                => /\ selectionMode' = selectionMode
                   /\ firstSelectedVertex' = firstSelectedVertex
                   /\ numSelectedVertices' = numSelectedVertices]_vars

C6_Witness ==
    /\ last.op = "updateWithInputState"
    /\ last.click = "outside"
    /\ ~last.selectionModeSwitch
    /\ selectObjectAt # Null
    /\ numSelectedVertices > 0

IsFramePass(e) == e.op = "renderPass" /\ e.enc = "frame"

IsFrameSubmit(e) == e.op = "submit" /\ e.enc = "frame"

PassNames(s) == [k \in 1..Len(s) |-> s[k].what]

FrameConsumedPick == \E k \in 1..Len(log) : log[k] = Submit("select")

\* C7: every renderFrame records the Standard, the Wireframe and the Normals
\* pass, in that order, into one command buffer and submits it once, as the
\* last GPU call of the frame.
C7_FramePassOrder ==
    pc = "frameDone" =>
        /\ PassNames(SelectSeq(log, IsFramePass)) = <<"Standard", "Wireframe", "Normals">>
        /\ Len(SelectSeq(log, IsFrameSubmit)) = 1
        /\ IsFrameSubmit(log[Len(log)])

C7_Witness ==
    /\ pc = "frameDone"
    /\ last.op = "renderFrame"
    /\ numSelectedVertices > 0
    /\ ~FrameConsumedPick
    /\ Len(SelectSeq(log, IsFramePass)) = 3

\* C8: when a frame consumes a pending pick request, the pick is resolved
\* before that frame's command buffer is recorded and submitted, so no pick
\* started by the frame is still suspended when the frame has been submitted.
C8_PickResolvedInsideFrame ==
    (pc = "frameDone" /\ FrameConsumedPick) =>
        \A i \in 1..Len(picks) : ~picks[i].fresh

FrameWrites ==
    {WriteBuffer("vpMatrix", 0), WriteBuffer("cameraPosition", 0)}
    \cup { WriteBuffer("light", i) : i \in 0..(NumLights - 1) }
    \cup { WriteBuffer(what, i) :
             what \in {"modelMatrix", "normalMatrix"}, i \in 0..(Len(meshList) - 1) }

Positions(ev) == { k \in 1..Len(log) : log[k] = ev }

\* C9: in every frame the view-projection matrix, the camera position, every
\* light record and every mesh's model and normal matrix are each written
\* exactly once, and all before the frame's command buffer is submitted.
C9_WritesOnceBeforeSubmit ==
    pc = "frameDone" =>
        /\ \E j \in 1..Len(log) : IsFrameSubmit(log[j])
        /\ \A ev \in FrameWrites :
             /\ Cardinality(Positions(ev)) = 1
             /\ \A k \in Positions(ev) :
                  \A j \in 1..Len(log) : IsFrameSubmit(log[j]) => k < j

C9_Witness ==
    /\ pc = "frameDone"
    /\ FrameConsumedPick
    /\ \A ev \in FrameWrites : Cardinality(Positions(ev)) = 1
    /\ Cardinality(FrameWrites) = 2 + NumLights + 2 * NumMeshes

\* C10: no pick request is dropped once a frame has consumed it: every
\* #selectObject call a frame starts reaches #selectVerticesFor.
C10_ConsumedPickNeverDropped ==
    last.op # "mapRejected"

SameLayout(meshes) ==
    \A i \in DOMAIN meshes : GetVertexLayout(meshes[i]) = GetVertexLayout(meshes[1])

RECURSIVE SumVertexCounts(_)
SumVertexCounts(ranges) ==
    IF ranges = <<>> THEN 0 ELSE Head(ranges).vertexCount + SumVertexCounts(Tail(ranges))

C14_MixedLayoutsFail ==
    (last.op = "init" /\ ~SameLayout(scene)) =>
        /\ vertexBuffer = NoBuffer
        /\ meshList = <<>>

\* C14 amended: packing a mesh list in which two meshes disagree on the vertex
\* layout is not detected: init takes the layout of the first mesh, and
\* produces a vertex buffer of the summed byte lengths and one range per mesh.
C14_MixedLayoutsPack ==
    (last.op = "init" /\ ~SameLayout(scene)) =>
        /\ vertexBufferLayout = GetVertexLayout(scene[1])
        /\ vertexBuffer.size = VbByteSize(scene)
        /\ Len(vertexBuffer.writes) = Len(scene)
        /\ Len(meshList) = Len(scene)

C14_Witness ==
    /\ last.op = "init"
    /\ ~SameLayout(scene)
    /\ Len(scene) = 2
    /\ vertexBufferLayout = GetVertexLayout(scene[1])
    /\ vertexBufferLayout # GetVertexLayout(scene[2])
    /\ Len(meshList) = 2
    /\ vertexBuffer.size > 0

\* The vertices of mesh i that lie in the selection.
SelectedOf(i) ==
    { v \in meshList[i].firstVertex..(meshList[i].firstVertex + meshList[i].vertexCount - 1) :
        v >= firstSelectedVertex /\ v < firstSelectedVertex + numSelectedVertices }

DrawsOf(op, i) == { k \in 1..Len(log) : log[k].op = op /\ log[k].idx = i - 1 }

\* The vertices a drawIndexed call reads through the wireframe index buffer.
IndexedVertices(e) == { WireframeIndex(j) : j \in e.first..(e.first + e.num - 1) }

\* The vertices (instances) a draw call of the normals pass covers.
InstanceVertices(e) == e.first..(e.first + e.num - 1)

SlotBytes(i) ==
    modelMatrices[i].bufferOffset..(modelMatrices[i].bufferOffset + modelMatrices[i].byteLength - 1)

BoundBytes(i) ==
    LET g == CreateBindGroup(modelMatrices[i]) IN g.offset..(g.offset + g.size - 1)

\* The bytes whose content differs before and after the step.
ChangedBytes ==
    { b \in DOMAIN modelMatricesBuffer'.bytes :
        b \notin DOMAIN modelMatricesBuffer.bytes
        \/ modelMatricesBuffer'.bytes[b] # modelMatricesBuffer.bytes[b] }

\* Slot i starts at i * align(structSize, 256) and spans structSize bytes
\* inside the buffer, the slots are pairwise disjoint, every byte written so
\* far lies in a slot, and the bind group of mesh i covers the bytes of slot i
\* and no others.
SlotsLaidOut ==
    last.op = "init" =>
        /\ Len(modelMatrices) = Len(meshList)
        /\ \A i \in 1..Len(modelMatrices) :
             /\ modelMatrices[i].bufferOffset
                    = (i - 1) * Align(Mat4ByteLength + Mat3ByteLength, UniformAlignment)
             /\ modelMatrices[i].byteLength = Mat4ByteLength + Mat3ByteLength
             /\ SlotBytes(i) \subseteq 0..(modelMatricesBuffer.size - 1)
             /\ BoundBytes(i) = SlotBytes(i)
             /\ \A k \in 1..Len(modelMatrices) :
                  k # i => SlotBytes(i) \cap SlotBytes(k) = {}
        /\ DOMAIN modelMatricesBuffer.bytes
               \subseteq UNION { SlotBytes(i) : i \in 1..Len(modelMatrices) }

C13_Witness ==
    /\ last.op = "init"
    /\ Len(modelMatrices) = NumMeshes
    /\ log = <<WriteBuffer("normalMatrix", 1)>>
    /\ \A i \in 1..Len(modelMatrices) :
         \A b \in SlotBytes(i) : b \in DOMAIN modelMatricesBuffer.bytes
    /\ modelMatricesBuffer.bytes[modelMatrices[2].bufferOffset] = <<"model", "a">>
    /\ modelMatricesBuffer.bytes[modelMatrices[2].bufferOffset + Mat4ByteLength]
           = <<"normal", "b">>
    /\ modelMatricesBuffer.bytes[modelMatrices[3].bufferOffset] = <<"model", "b">>

\* A setModelMatrix or setNormalMatrix on slot i changes bytes of slot i only.
WritesStayInSlot ==
    \A i \in 1..Len(modelMatrices) :
        (\E what \in {"modelMatrix", "normalMatrix"} : log' = <<WriteBuffer(what, i - 1)>>)
            => ChangedBytes \subseteq SlotBytes(i)

\* C13: the per-object transform slots occupy pairwise disjoint byte ranges of
\* one buffer (slot i at i * align(structSize, 256), structSize bytes, inside
\* the buffer), the bind group of mesh i references only slot i's range, and
\* setModelMatrix / setNormalMatrix on slot i overwrite only bytes of slot i,
\* leaving every other slot unchanged.
C13_SlotsIsolated == []SlotsLaidOut /\ [][WritesStayInSlot]_vars

\* The GPU API is missing, or the adapter or the device request fails.
BrowserFails == ~env.gpu \/ env.adapter # "adapter" \/ env.device # "device"

\* C15: if the GPU API is unavailable or the adapter or device request fails,
\* main() never gets past the failing request, the renderer is never
\* initialised, no timer is ever started, and once main() has failed the
\* error element is visible with the error as its text.
C15_FailedStartupShowsError ==
    BrowserFails =>
        /\ renderer # "initialised"
        /\ timers = {}
        /\ pc = "idle" /\ log = <<>>
        /\ ~env.gpu => main \in {"initGpuDevice", "failed"}
        /\ (env.gpu /\ env.adapter # "adapter")
              => main \in {"initGpuDevice", "requestAdapter", "failed"}
        /\ main \in {"initGpuDevice", "requestAdapter", "requestDevice", "failed"}
        /\ main = "failed" => (errorMessage.display = "block" /\ errorMessage.text # "")

C15_Witness ==
    /\ main = "failed"
    /\ env.gpu
    /\ env.adapter = "adapter"
    /\ env.device = "rejects"
    /\ errorMessage.display = "block"
    /\ renderer = "none"
    /\ timers = {}

\* C19: no frame is rendered before Renderer.init() has resolved, and once it
\* has resolved every pass, the select pass of the object selector included,
\* is initialised, so that no pick consumed by a frame meets a select pass
\* without its texture, buffer and pipeline.
C19_PassesInitialisedBeforeFrames ==
    /\ pc = "frameDone" => renderer = "initialised"
    /\ renderer = "initialised" => selectPass = "initialised"
    /\ last.op # "selectObjectThrows"

\* C17: for a point light of range R at distance d, calcPointLight returns
\* zero for every d >= R, and for d < R the sum of its ambient, diffuse and
\* specular colour times (R - d) / R.
C17_LinearFalloff ==
    lightColor.called =>
        LET R == fragment.range
            d == fragment.distance
            v == lightColor.value
        IN IF d >= R THEN v.result.num = 0 /\ v.result.den # 0
           ELSE /\ v.result.den # 0
                /\ v.ambient = fragment.color * fragment.ambientStrength
                /\ v.result.num * R = (v.ambient + v.diffuse + v.specular) * (R - d) * v.result.den

C17_Witness ==
    /\ lightColor.called
    /\ fragment.distance > 0
    /\ fragment.distance < fragment.range - 1
    /\ lightColor.value.diffuse > 0
    /\ lightColor.value.specular > 0
    /\ lightColor.value.result.num > 0

\* C18: whenever dot(lightDirection, normal) <= 0, the specular colour of
\* calcPointLight is zero, whatever the view direction (the halfway vector),
\* the shininess and the specular strengths are.
C18_NoSpecularBehindSurface ==
    (lightColor.called /\ fragment.dotLightNormal <= 0) => lightColor.value.specular = 0

C18_Witness ==
    /\ lightColor.called
    /\ fragment.dotLightNormal < 0
    /\ fragment.dotNormalHalfway > 0
    /\ fragment.specularStrength > 0
    /\ fragment.distance < fragment.range
    /\ lightColor.value.specular = 0
    /\ lightColor.value.result.num > 0

\* C16: for a total vertex count N that is a multiple of 3, the wireframe
\* index buffer holds 2N indices and the entries 6k..6k+5 of every triangle k
\* are 3k, 3k+1, 3k+1, 3k+2, 3k+2, 3k, for every N.
C16_IndexBufferHoldsTriangleEdges ==
    wireframeIndexBuffer # NoIndexBuffer =>
        /\ wireframeIndexBuffer.length = 2 * TotalVertices(meshList)
        /\ wireframeIndexBuffer.entries =
               <<3 * probe, 3 * probe + 1, 3 * probe + 1,
                 3 * probe + 2, 3 * probe + 2, 3 * probe>>

\* C20: at most one pick is in flight: no picking pass is submitted while an
\* earlier pick still waits for onSubmittedWorkDone or for its mapAsync of the
\* readback buffer.
C20_AtMostOnePickInFlight ==
    /\ Len(picks) <= 1
    /\ Cardinality({i \in 1..Len(picks) : picks[i].at = "mapAsync"}) <= 1

SelectSubmits(s) == Cardinality({ k \in 1..Len(s) : s[k] = Submit("select") })

\* One task of the renderer, seen from the pending pick request.
PendingPickStep ==
    /\ (last'.op = "updateWithInputState" /\ last'.click = "inside") =>
         \A in \in SelectionInputs :
             (Click(in) = "inside" /\ UpdateWithInputState(in)) =>
                 selectObjectAt' = [x |-> Round(in.selectX), y |-> Round(in.selectY)]
    /\ (pc = "idle" /\ pc' = "frameDone") =>
         /\ selectObjectAt' = Null
         /\ IF selectObjectAt = Null
            THEN picks' = picks /\ SelectSubmits(log') = 0
            ELSE /\ Len(picks') = Len(picks) + 1
                 /\ SubSeq(picks', 1, Len(picks)) = picks
                 /\ picks'[Len(picks')].x = selectObjectAt.x
                 /\ picks'[Len(picks')].y = selectObjectAt.y
                 /\ SelectSubmits(log') = 1
    /\ Len(picks') > Len(picks) => (pc = "idle" /\ pc' = "frameDone" /\ selectObjectAt # Null)
    /\ (last'.op = "selectVerticesFor" /\ pc' = pc) => Len(picks') = Len(picks) - 1

\* C21: the pending pick request is one slot: an accepted click overwrites
\* whatever request is pending, a frame that finds a request clears it and
\* starts exactly one picking pass with its coordinates, a frame that finds
\* none starts no picking pass, nothing else starts one, and a selection
\* resolution ends exactly one started pick.
C21_PendingPickIsOneSlot == [][PendingPickStep]_vars

C21_Witness ==
    /\ pc = "frameDone"
    /\ last.op = "renderFrame"
    /\ selectObjectAt = Null
    /\ SelectSubmits(log) = 1
    /\ Len(picks) = 1
    /\ picks[1].fresh

IsSubmit(e) == e.op = "submit"

\* The frame in progress found a pick request: the #selectObject call it
\* started is suspended at its first await.
FrameStartedPick == \E i \in 1..Len(picks) : picks[i].fresh

\* C22: a frame that found no pick request makes one queue submission, that
\* of its own command buffer; a frame that found one makes two, the picking
\* pass in a command buffer of its own first; the picking pass is never
\* recorded into the frame's command buffer, and nothing else into its own.
C22_SubmissionsPerFrame ==
    pc = "frameDone" =>
        /\ SelectSeq(log, IsSubmit) =
               IF FrameStartedPick THEN <<Submit("select"), Submit("frame")>>
               ELSE <<Submit("frame")>>
        /\ \A k \in 1..Len(log) :
             log[k].op = "renderPass" => (log[k].what = "Select" <=> log[k].enc = "select")
        /\ FrameStartedPick =>
             \E k \in 1..Len(log) : log[k] = RenderPass("select", "Select", 0, 0, FALSE)

C22_Witness ==
    /\ pc = "frameDone"
    /\ FrameStartedPick
    /\ Len(SelectSeq(log, IsSubmit)) = 2
    /\ Len(SelectSeq(log, IsFramePass)) = 3
    /\ log[Len(log)] = Submit("frame")

\* C23: in every reachable state the selection is empty, or the mode is Face
\* and the selection is one triangle (3t, 3), or the mode is Object and the
\* selection is the range of exactly one mesh.
C23_SelectionFitsMode ==
    \/ firstSelectedVertex = 0 /\ numSelectedVertices = 0
    \/ /\ selectionMode = "Face"
       /\ numSelectedVertices = 3
       /\ firstSelectedVertex >= 0
       /\ firstSelectedVertex % 3 = 0
    \/ /\ selectionMode = "Object"
       /\ Cardinality({ i \in 1..Len(meshList) :
                          MeshRange(i) = <<firstSelectedVertex, numSelectedVertices>> }) = 1

C23_Witness ==
    /\ selectionMode = "Face"
    /\ numSelectedVertices = 3
    /\ firstSelectedVertex > 0
    /\ last.op = "selectVerticesFor"
    /\ Len(picks) > 0
    /\ selectObjectAt # Null

PassesOf(what) == { k \in 1..Len(log) : log[k].op = "renderPass" /\ log[k].what = what }

\* C24: in every renderFrame call the Wireframe pass and the Normals pass are
\* given the same first selected vertex and number of selected vertices, those
\* the renderer holds when the frame returns, and the Normals pass the mode
\* the renderer holds: no task runs between the recording of the two passes.
C24_OverlaysSeeOneSelection ==
    pc = "frameDone" =>
        /\ PassesOf("Wireframe") # {}
        /\ PassesOf("Normals") # {}
        /\ \A w \in PassesOf("Wireframe"), n \in PassesOf("Normals") :
             /\ log[w].first = log[n].first
             /\ log[w].num = log[n].num
             /\ log[n].first = firstSelectedVertex
             /\ log[n].num = numSelectedVertices
             /\ log[n].tangents = (selectionMode = "Face")

C24_Witness ==
    /\ pc = "frameDone"
    /\ last.op = "renderFrame"
    /\ \E w \in PassesOf("Wireframe"), n \in PassesOf("Normals") :
         /\ log[w].first = log[n].first
         /\ log[w].first > 0
         /\ log[w].num = 3
    /\ \E i \in 1..Len(picks) : picks[i].at = "mapAsync"

\* Mutant: the line endpoint counts of the two modes are exchanged.
NormalsVertexCount_Swapped(drawTangents) == IF drawTangents THEN 2 ELSE 6

\* drawTangents ? 6 : 2, the vertex count of the draw call of the normals pass.
NormalsVertexCount(drawTangents) == IF drawTangents THEN 6 ELSE 2

\* The arguments of the passEncoder.draw call recorded as event e.
NormalsDrawCall(e) ==
    [vertexCount |-> NormalsVertexCount(e.tangents), instanceCount |-> e.num,
     firstVertex |-> 0, firstInstance |-> e.first]

FirstOf(S) == CHOOSE v \in S : \A u \in S : v <= u

\* C26: for every mesh that has vertices in the selection the normals pass
\* draws 6 line endpoints per instance when the selection mode is Face and 2
\* when it is Object, with one instance per selected vertex of the mesh,
\* starting at the first of them.
C26_NormalsEndpointsFollowMode ==
    last.op = "drawOverlays" =>
        \A i \in 1..Len(meshList) :
            SelectedOf(i) # {} =>
                /\ DrawsOf("draw", i) # {}
                /\ \A k \in DrawsOf("draw", i) :
                     NormalsDrawCall(log[k]) =
                         [vertexCount |-> IF selectionMode = "Face" THEN 6 ELSE 2,
                          instanceCount |-> Cardinality(SelectedOf(i)),
                          firstVertex |-> 0,
                          firstInstance |-> FirstOf(SelectedOf(i))]

C26_Witness ==
    /\ last.op = "drawOverlays"
    /\ selectionMode = "Face"
    /\ numSelectedVertices = 3
    /\ \E i \in 2..Len(meshList) :
         /\ SelectedOf(i) # {}
         /\ \E k \in DrawsOf("draw", i) :
              /\ NormalsDrawCall(log[k]).vertexCount = 6
              /\ NormalsDrawCall(log[k]).instanceCount = 3
              /\ NormalsDrawCall(log[k]).firstInstance > meshList[i].firstVertex

\* The drawIndexed calls the wireframe pass makes for mesh i with the
\* selection the renderer holds.
WireframeDrawsNow(i) ==
    LET draws == WireframeDraws(meshList, 1, firstSelectedVertex, numSelectedVertices)
    IN { draws[k] : k \in { j \in 1..Len(draws) : draws[j].idx = i - 1 } }

\* C27: the first selected vertex is always a multiple of 3 (and so is the
\* number of selected vertices), and every index the wireframe pass draws for
\* mesh i, entries [2 * first, 2 * last) of the index buffer, is a vertex of
\* mesh i inside the selection (vertex counts multiples of 3, total below
\* 65536).
C27_WireframeStaysInSelection ==
    /\ firstSelectedVertex % 3 = 0
    /\ numSelectedVertices % 3 = 0
    /\ \A i \in 1..Len(meshList) :
         \A e \in WireframeDrawsNow(i) :
             /\ e.first = 2 * FirstOf(SelectedOf(i))
             /\ e.num = 2 * Cardinality(SelectedOf(i))
             /\ IndexedVertices(e) \subseteq SelectedOf(i)

C27_Witness ==
    /\ last.op = "selectVerticesFor"
    /\ selectionMode = "Face"
    /\ Len(meshList) >= 2
    /\ firstSelectedVertex > meshList[2].firstVertex
    /\ WireframeDrawsNow(1) = {}
    /\ \E e \in WireframeDrawsNow(2) : IndexedVertices(e) = SelectedOf(2)
    /\ Cardinality(SelectedOf(2)) = 3

\* Bytes of a Uint32Array element.
U32ByteLength == 4

\* The triangle id texture has the size of the depth texture, which init
\* creates with the size of the canvas; the readback buffer holds one u32
\* for each of its pixels.
TriangleIdBufferSize == CanvasWidth * CanvasHeight * U32ByteLength

\* new Uint32Array(getMappedRange()).length.
IdsLength == TriangleIdBufferSize \div U32ByteLength

\* bufferPosition of getSelectedTriangleId.  ids[bufferPosition] is undefined
\* outside 0..IdsLength-1, and undefined * 3 is NaN.
BufferPosition(x, y) == CanvasWidth * y + x

InBuffer(position) == position >= 0 /\ position < IdsLength

\* C28: the buffer position width * y + x of every pick request accepted by
\* updateWithInputState, pending or being resolved, lies inside the readback
\* buffer, so that the value read there is a pixel of the id texture, and the
\* selection consists of two non-negative integers.
C28_ReadPositionInsideBuffer ==
    /\ selectObjectAt # Null => InBuffer(BufferPosition(selectObjectAt.x, selectObjectAt.y))
    /\ \A i \in 1..Len(picks) : InBuffer(BufferPosition(picks[i].x, picks[i].y))
    /\ firstSelectedVertex \in Nat
    /\ numSelectedVertices \in Nat

C28_Witness ==
    /\ last.op = "mapAsync"
    /\ numSelectedVertices > 0
    /\ \E i \in 1..Len(picks) :
         /\ picks[i].at = "mapAsync"
         /\ BufferPosition(picks[i].x, picks[i].y) = IdsLength - 1
    /\ selectObjectAt # Null
    /\ BufferPosition(selectObjectAt.x, selectObjectAt.y) = CanvasWidth - 1

TextureCycle == <<"Normal", "Disabled", "Exclusive">>

CyclePosition(m) == CHOOSE k \in 1..3 : TextureCycle[k] = m

\* The mode one step after m in the cycle Normal -> Disabled -> Exclusive.
CycleSuccessor(m) == TextureCycle[(CyclePosition(m) % 3) + 1]

\* An updateWithInputState advances the channels whose switch is set by one
\* step of the cycle and leaves the other channels as they are.
TextureStep ==
    \A in \in TextureInputs :
        UpdateWithInputState(in) =>
            /\ textureMode'.color =
                   IF in.colorTextureSwitch THEN CycleSuccessor(textureMode.color)
                   ELSE textureMode.color
            /\ textureMode'.specular =
                   IF in.specularTextureSwitch THEN CycleSuccessor(textureMode.specular)
                   ELSE textureMode.specular
            /\ textureMode'.normal =
                   IF in.normalTextureSwitch THEN CycleSuccessor(textureMode.normal)
                   ELSE textureMode.normal

AllNormal == textureMode = [color |-> "Normal", specular |-> "Normal", normal |-> "Normal"]

ThreeSwitchesRestore ==
    \A m \in TextureRenderModes :
        /\ NextTextureRenderMode(m) # m
        /\ NextTextureRenderMode(NextTextureRenderMode(m)) # m
        /\ NextTextureRenderMode(NextTextureRenderMode(NextTextureRenderMode(m))) = m

\* C25: every texture channel starts in mode Normal; an input state advances
\* exactly the channels whose switch is set, each by one step of the cycle
\* Normal -> Disabled -> Exclusive -> Normal, and leaves the other channels
\* unchanged; three switches of a channel restore its mode and fewer do not.
C25_TextureModeCycle ==
    /\ AllNormal
    /\ []ThreeSwitchesRestore
    /\ [][TextureStep]_vars

C25_Witness ==
    /\ last.op = "updateWithInputState"
    /\ textureMode.color = "Exclusive"
    /\ textureMode.specular = "Normal"
    /\ textureMode.normal = "Disabled"
    /\ selectionMode = "Object"

\* ------------------------------------------------ the steps of Renderer.init
\* Renderer.init from its call to its last step: the allocation of the shared
\* buffers, then the init of every pass.  A pass's init is suspended at each
\* load of a shader file or of an image, and a load can fail.
InitStep(op, what) == [op |-> op, what |-> what]

\* The shared resources in the order init creates them.
SharedAllocations ==
    << InitStep("createBuffer", "vertexBuffer"),
       InitStep("createTexture", "depthTexture"),
       InitStep("createBuffer", "cameraBuffer"),
       InitStep("createBuffer", "modelMatricesBuffer"),
       InitStep("createBuffer", "lightBuffer") >>

\* The passes in the order init awaits their init.
PassOrder_RenderOrder == <<"Standard", "Wireframe", "Normals", "Select">>

PassOrder == <<"Standard", "Normals", "Wireframe", "Select">>

\* The loads a pass's init awaits: its shader file and, for the standard pass,
\* the three texture images.
Loads(pass) == IF pass = "Standard" THEN 4 ELSE 1

\* The positions of the log at which a step of this kind stands.
StepsAt(op, what) == { i \in DOMAIN initLog : initLog[i] = InitStep(op, what) }

HasStep(op, what) == StepsAt(op, what) # {}

\* The pass whose init is suspended at a load, if there is one.
Loading(pass) ==
    /\ HasStep("start", pass)
    /\ ~HasStep("done", pass)
    /\ ~HasStep("failed", pass)

\* What init does once the pass at position k of the order is initialised: it
\* calls the init of the next pass, which runs up to its first load, or returns.
\* Of the last pass the renderer either awaits the init itself, or calls
\* ObjectSelector.init, which starts the pass's init and returns at once.
Continue(k, awaited) ==
    IF k < Len(PassOrder) - 1
    THEN <<InitStep("start", PassOrder[k + 1])>>
    ELSE IF k = Len(PassOrder) - 1
    THEN IF awaited THEN <<InitStep("start", PassOrder[k + 1])>>
         ELSE <<InitStep("start", PassOrder[k + 1]), InitStep("resolved", "init")>>
    ELSE IF HasStep("resolved", "init") THEN <<>>
    ELSE <<InitStep("resolved", "init")>>

InitOrder ==
    /\ PassesIdle
    /\ main = "rendererInit"
    /\ env = BrowserOk
    /\ errorMessage = NoErrorMessage
    /\ timers = {}
    /\ renderer = "constructed"
    /\ selectPass = "created"
    /\ scene \in MeshLists
    /\ vertexBuffer = NoBuffer
    /\ vertexBufferLayout = NoLayout
    /\ modelMatrices = <<>>
    /\ modelMatricesBuffer = NoModelMatricesBuffer
    /\ meshList = <<>>
    /\ selectObjectAt = Null
    /\ selectionMode = "Object"
    /\ firstSelectedVertex = 0
    /\ numSelectedVertices = 0
    /\ textureMode = [color |-> "Normal", specular |-> "Normal", normal |-> "Normal"]
    /\ picks = <<>>
    /\ pc = "idle"
    /\ log = <<>>
    /\ last = Last("constructor", "none", FALSE, NoPixel, 0)
    /\ pickHist = <<>>

\* init up to the first load of the first pass.
InitAllocate ==
    /\ initLog = <<>>
    /\ last.op = "constructor"
    /\ PackScene
    /\ initLog' = SharedAllocations \o <<InitStep("start", PassOrder[1])>>
    /\ UNCHANGED <<scene, selectObjectAt, selectionMode, firstSelectedVertex,
                   numSelectedVertices, textureMode, picks, pc, log, pickHist>>
    /\ UNCHANGED shaded
    /\ UNCHANGED startVars
    /\ UNCHANGED shaderVars
    /\ UNCHANGED indexVars

\* A load of a pass is done and the pass's init goes on to its next load.
PassLoaded(k) ==
    /\ Loading(PassOrder[k])
    /\ Cardinality(StepsAt("loaded", PassOrder[k])) < Loads(PassOrder[k]) - 1
    /\ initLog' = Append(initLog, InitStep("loaded", PassOrder[k]))
    /\ UNCHANGED shaded
    /\ UNCHANGED rendererVars
    /\ UNCHANGED initVars
    /\ UNCHANGED startVars
    /\ UNCHANGED shaderVars
    /\ UNCHANGED indexVars

\* The last load of a pass is done: the pass's init runs to its end and
\* Renderer.init goes on.
PassDone(k, awaited) ==
    /\ Loading(PassOrder[k])
    /\ Cardinality(StepsAt("loaded", PassOrder[k])) = Loads(PassOrder[k]) - 1
    /\ initLog' = initLog \o <<InitStep("loaded", PassOrder[k]), InitStep("done", PassOrder[k])>>
                          \o Continue(k, awaited)
    /\ UNCHANGED shaded
    /\ UNCHANGED rendererVars
    /\ UNCHANGED initVars
    /\ UNCHANGED startVars
    /\ UNCHANGED shaderVars
    /\ UNCHANGED indexVars

\* A load fails: the pass's init rejects, and so does Renderer.init if it is
\* still awaiting the pass.
PassFailed(k) ==
    /\ Loading(PassOrder[k])
    /\ initLog' = initLog \o <<InitStep("failed", PassOrder[k])>>
                          \o (IF HasStep("resolved", "init") THEN <<>>
                              ELSE <<InitStep("rejected", "init")>>)
    /\ UNCHANGED shaded
    /\ UNCHANGED rendererVars
    /\ UNCHANGED initVars
    /\ UNCHANGED startVars
    /\ UNCHANGED shaderVars
    /\ UNCHANGED indexVars

NextOrder ==
    \/ InitAllocate
    \/ \E k \in DOMAIN PassOrder : PassLoaded(k)
    \/ \E k \in DOMAIN PassOrder : \E awaited \in BOOLEAN : PassDone(k, awaited)
    \/ \E k \in DOMAIN PassOrder : PassFailed(k)

SpecOrder == InitOrder /\ [][NextOrder]_vars

\* The passes whose init has been called, in the order of the calls.
RECURSIVE StartedPasses(_)
StartedPasses(steps) ==
    IF steps = <<>> THEN <<>>
    ELSE IF Head(steps).op = "start" THEN <<Head(steps).what>> \o StartedPasses(Tail(steps))
    ELSE StartedPasses(Tail(steps))

IsPrefix(s, t) == Len(s) <= Len(t) /\ s = SubSeq(t, 1, Len(s))

\* Every shared resource is created before the init of any pass is called.
AllocatedBeforePasses ==
    \A i \in DOMAIN initLog :
        initLog[i].op = "start" =>
            \A a \in DOMAIN SharedAllocations :
                \E j \in 1..(i - 1) : initLog[j] = SharedAllocations[a]

\* When the init of a pass is called, the init of every pass called before it
\* has run to its end.
OnePassAtATime ==
    \A i \in DOMAIN initLog :
        initLog[i].op = "start" =>
            \A j \in 1..(i - 1) :
                initLog[j].op = "start" =>
                    \E d \in (j + 1)..(i - 1) : initLog[d] = InitStep("done", initLog[j].what)

\* C29 as stated: init allocates the shared vertex, camera, transform and light
\* buffers before initialising any pass, and then initialises the passes one at
\* a time in the order Standard, Wireframe, Normals, Picking, each pass being
\* fully initialised before the next one starts.
C29_InitInRenderOrder ==
    /\ AllocatedBeforePasses
    /\ OnePassAtATime
    /\ IsPrefix(StartedPasses(initLog), <<"Standard", "Wireframe", "Normals", "Select">>)

\* C29: init allocates the shared vertex, camera, transform and light buffers
\* before initialising any pass, and then initialises the passes one at a time
\* in the order Standard, Normals, Wireframe, Picking, each pass being fully
\* initialised before the next one starts.
C29_InitInAwaitOrder ==
    /\ AllocatedBeforePasses
    /\ OnePassAtATime
    /\ IsPrefix(StartedPasses(initLog), <<"Standard", "Normals", "Wireframe", "Select">>)

C29_Witness ==
    /\ Len(StartedPasses(initLog)) = 4
    /\ HasStep("done", "Select")
    /\ HasStep("resolved", "init")

\* ---------------------------------------------------------- fragment_main
\* One invocation of the standard pass's fragment shader with the render
\* options the pass wrote for the frame.  As for calcPointLight one colour
\* channel is followed, in whole numbers of some unit; the normal is held by
\* its component towards the lights, which stand behind the camera.
TEXTURE_MODE_NORMAL == 0
TEXTURE_MODE_DISABLED == 1
TEXTURE_MODE_EXCLUSICE == 2

\* The uniform StandardRenderPass.renderFrame writes.
RenderOptions(tex) ==
    [colorTextureMode |-> TextureRenderModeValue(tex.color),
     specularTextureMode |-> TextureRenderModeValue(tex.specular),
     normalTextureMode |-> TextureRenderModeValue(tex.normal)]

Quotient(n) == [num |-> n, den |-> 1]

AddQuotients(a, b) == [num |-> a.num * b.den + b.num * a.den, den |-> a.den * b.den]

SameQuotient(a, b) == a.num * b.den = b.num * a.den

\* What the vertex stage and the three textures give for a fragment.
TexturedFragments ==
    [specularSample : {0, 2}, colorSample : {1, 2}, normal : {1},
     normalSample : {-1, 1}, specularShininess : {1}]

\* The lights of the storage buffer.
SceneLights ==
    [i \in 1..NumLights |->
        [range |-> i + 1, distance |-> 1, color |-> i, ambientStrength |-> 1,
         diffuseStrength |-> 1, specularStrength |-> 1]]

\* The light loop: one calcPointLight call for every light.
RECURSIVE LightLoop(_, _, _, _)
LightLoop(lights, normalMapNormal, specularStrength, specularShininess) ==
    IF lights = <<>> THEN Quotient(0)
    ELSE LET light == Head(lights)
             call == CalcPointLight(
                 [range |-> light.range, distance |-> light.distance, color |-> light.color,
                  ambientStrength |-> light.ambientStrength,
                  diffuseStrength |-> light.diffuseStrength,
                  specularStrength |-> light.specularStrength,
                  dotLightNormal |-> normalMapNormal,
                  dotNormalHalfway |-> normalMapNormal,
                  matSpecularStrength |-> specularStrength,
                  matSpecularShininess |-> specularShininess])
         IN AddQuotients(call.result,
                         LightLoop(Tail(lights), normalMapNormal, specularStrength,
                                   specularShininess))

\* What an invocation returns: the return statement taken, the value, and the
\* calcPointLight calls made on the way.
Returned(at, value, calls) == [at |-> at, value |-> value, lightCalls |-> calls]

\* Mutant: the normal channel is looked at before the specular channel.
FragmentMain_NormalFirst(renderOptions, in) ==
    LET specularStrength ==
            IF renderOptions.specularTextureMode # TEXTURE_MODE_DISABLED
            THEN in.specularSample ELSE 1
        normalMapNormal ==
            IF renderOptions.normalTextureMode # TEXTURE_MODE_DISABLED
            THEN in.normalSample ELSE in.normal
        lightSum == LightLoop(SceneLights, normalMapNormal, specularStrength,
                                in.specularShininess)
        matColor ==
            IF renderOptions.colorTextureMode # TEXTURE_MODE_DISABLED
            THEN in.colorSample ELSE 1
    IN IF renderOptions.normalTextureMode = TEXTURE_MODE_EXCLUSICE
       THEN Returned("normal", [num |-> 4 * normalMapNormal + 1, den |-> 2], 0)
       ELSE IF renderOptions.specularTextureMode = TEXTURE_MODE_EXCLUSICE
       THEN Returned("specular", Quotient(specularStrength), 0)
       ELSE IF renderOptions.colorTextureMode = TEXTURE_MODE_EXCLUSICE
       THEN Returned("color", Quotient(matColor), Len(SceneLights))
       ELSE Returned("lit", [num |-> matColor * lightSum.num, den |-> lightSum.den],
                     Len(SceneLights))

\* fragment_main.  normalMapNormal / 0.5 + 0.5 is (4 n + 1) / 2.
FragmentMain(renderOptions, in) ==
    LET specularStrength ==
            IF renderOptions.specularTextureMode # TEXTURE_MODE_DISABLED
            THEN in.specularSample ELSE 1
    IN IF /\ renderOptions.specularTextureMode # TEXTURE_MODE_DISABLED
          /\ renderOptions.specularTextureMode = TEXTURE_MODE_EXCLUSICE
       THEN Returned("specular", Quotient(specularStrength), 0)
       ELSE
    LET normalMapNormal ==
            IF renderOptions.normalTextureMode # TEXTURE_MODE_DISABLED
            THEN in.normalSample ELSE in.normal
    IN IF /\ renderOptions.normalTextureMode # TEXTURE_MODE_DISABLED
          /\ renderOptions.normalTextureMode = TEXTURE_MODE_EXCLUSICE
       THEN Returned("normal", [num |-> 4 * normalMapNormal + 1, den |-> 2], 0)
       ELSE
    LET lightSum == LightLoop(SceneLights, normalMapNormal, specularStrength,
                                in.specularShininess)
        matColor ==
            IF renderOptions.colorTextureMode # TEXTURE_MODE_DISABLED
            THEN in.colorSample ELSE 1
    IN IF /\ renderOptions.colorTextureMode # TEXTURE_MODE_DISABLED
          /\ renderOptions.colorTextureMode = TEXTURE_MODE_EXCLUSICE
       THEN Returned("color", Quotient(matColor), Len(SceneLights))
       ELSE Returned("lit", [num |-> matColor * lightSum.num, den |-> lightSum.den],
                     Len(SceneLights))

InitShade ==
    /\ Started
    /\ NoShader
    /\ probe = 0
    /\ wireframeIndexBuffer = NoIndexBuffer
    /\ initLog = <<>>
    /\ shaded \in [given : {FALSE}, in : TexturedFragments]
    /\ Packed(CubeMeshes(SceneMeshes))
    /\ meshList = PackMeshes(MeshCounts(scene), 0)
    /\ selectObjectAt = Null
    /\ selectionMode = "Object"
    /\ firstSelectedVertex = 0
    /\ numSelectedVertices = 0
    /\ textureMode = [color |-> "Normal", specular |-> "Normal", normal |-> "Normal"]
    /\ picks = <<>>
    /\ pc = "idle"
    /\ log = <<>>
    /\ last = Last("init", "none", FALSE, NoPixel, 0)
    /\ pickHist = <<>>

\* The standard pass writes the render options of the frame and the fragment
\* is shaded with them.
ShadeTextured ==
    /\ shaded' = [given |-> TRUE, in |-> shaded.in, textureMode |-> textureMode,
                  out |-> FragmentMain(RenderOptions(textureMode), shaded.in)]
    /\ UNCHANGED initLog
    /\ UNCHANGED rendererVars
    /\ UNCHANGED initVars
    /\ UNCHANGED startVars
    /\ UNCHANGED shaderVars
    /\ UNCHANGED indexVars

NextShade ==
    \/ \E in \in TextureInputs : UpdateWithInputState(in)
    \/ ShadeTextured

SpecShade == InitShade /\ [][NextShade]_vars

\* The channels in the order fragment_main looks at them.
ChannelOrder == <<"specular", "normal", "color">>

ExclusiveChannels(tex) == { i \in DOMAIN ChannelOrder : tex[ChannelOrder[i]] = "Exclusive" }

FirstExclusive(tex) ==
    ChannelOrder[CHOOSE i \in ExclusiveChannels(tex) : \A j \in ExclusiveChannels(tex) : i <= j]

\* What a channel shows of a fragment on its own.
Visualisation(channel, in) ==
    CASE channel = "specular" -> Quotient(in.specularSample)
      [] channel = "normal" -> [num |-> 4 * in.normalSample + 1, den |-> 2]
      [] channel = "color" -> Quotient(in.colorSample)

\* With a channel Exclusive the output is the visualisation of the first
\* Exclusive channel, and not a product with the lighting sum.
ExclusiveShortCircuits ==
    shaded.given =>
        (ExclusiveChannels(shaded.textureMode) # {} =>
            /\ shaded.out.at = FirstExclusive(shaded.textureMode)
            /\ SameQuotient(shaded.out.value,
                            Visualisation(FirstExclusive(shaded.textureMode), shaded.in)))

\* C30 as stated: for every combination of the three texture modes, if a
\* channel's mode is Exclusive the fragment output is that channel's raw
\* visualisation and the lighting sum is bypassed; with several channels
\* Exclusive the output is that of the first Exclusive channel in the order
\* specular, normal, color; and lighting is computed only when no channel is
\* Exclusive.
C30_LightingOnlyWithoutExclusive ==
    /\ ExclusiveShortCircuits
    /\ shaded.given =>
          (shaded.out.lightCalls > 0 => ExclusiveChannels(shaded.textureMode) = {})

\* C30: for every combination of the three texture modes, if a channel's mode
\* is Exclusive the fragment output is the visualisation of the first Exclusive
\* channel in the order specular, normal, color, and the lighting sum does not
\* enter the output; the lighting sum enters the output exactly when no channel
\* is Exclusive, and it is computed exactly when neither the specular nor the
\* normal channel is Exclusive, the color channel being looked at after the
\* light loop.
C30_ExclusiveBypassesLighting ==
    /\ ExclusiveShortCircuits
    /\ shaded.given =>
          /\ shaded.out.at = "lit" <=> ExclusiveChannels(shaded.textureMode) = {}
          /\ shaded.out.lightCalls \in {0, NumLights}
          /\ shaded.out.lightCalls > 0 <=>
                 /\ shaded.textureMode.specular # "Exclusive"
                 /\ shaded.textureMode.normal # "Exclusive"

C30_Witness ==
    /\ shaded.given
    /\ shaded.textureMode.specular = "Disabled"
    /\ shaded.textureMode.normal = "Exclusive"
    /\ shaded.textureMode.color = "Exclusive"
    /\ shaded.out.at = "normal"
    /\ shaded.out.lightCalls = 0
====
